---------------------------- MODULE Spec2Model ----------------------------
(***************************************************************************)
(* The x86 instruction database of asmjit (src/asmjit/x86/x86inst.cpp):    *)
(* the name index (X86Inst::getIdByName), the operand validator            *)
(* (X86Inst::validate) and the condition-code tables.                      *)
(*                                                                         *)
(* Both entry points are functions of their arguments and the constant     *)
(* tables.  The state machine is a caller: from "idle" it makes one call   *)
(* with arguments drawn from bounded sets, the call's action computes the  *)
(* whole function, and Return brings the caller back to "idle".            *)
(*                                                                         *)
(* Conventions.  C arrays are tuples, element k of the C array being       *)
(* element k+1 of the tuple.  Bit sets whose bits have names (operand      *)
(* flags, memory flags, instruction flags, options, architecture masks)    *)
(* are sets of those names; register masks are sets of register indices.   *)
(* "a & b" is then intersection and "a | b" union.                         *)
(***************************************************************************)
EXTENDS Integers, Sequences, FiniteSets, TLC

(***************************************************************************)
(* X86InstDB::nameData (x86inst.cpp 2350-2543): the zero-separated name    *)
(* blob, one byte per element, the string literal's final NUL included.    *)
(* Element k+1 of the tuple is byte k of the C array.                      *)
(***************************************************************************)
nameData ==
  <<
  0, 97, 100, 99, 0, 97, 100, 99, 120, 0, 97, 100, 111, 120, 0, 98, 101, 120, 116, 114, 0, 98, 108,
  99, 102, 105, 108, 108, 0, 98, 108, 99, 105, 0, 98, 108, 99, 105, 99, 0, 98, 108, 99, 109, 115,
  107, 0, 98, 108, 99, 115, 0, 98, 108, 115, 102, 105, 108, 108, 0, 98, 108, 115, 105, 0, 98, 108,
  115, 105, 99, 0, 98, 108, 115, 109, 115, 107, 0, 98, 108, 115, 114, 0, 98, 115, 102, 0, 98, 115,
  114, 0, 98, 115, 119, 97, 112, 0, 98, 116, 0, 98, 116, 99, 0, 98, 116, 114, 0, 98, 116, 115, 0,
  98, 122, 104, 105, 0, 99, 97, 108, 108, 0, 99, 98, 119, 0, 99, 100, 113, 0, 99, 100, 113, 101, 0,
  99, 108, 97, 99, 0, 99, 108, 99, 0, 99, 108, 100, 0, 99, 108, 102, 108, 117, 115, 104, 0, 99,
  108, 102, 108, 117, 115, 104, 111, 112, 116, 0, 99, 108, 119, 98, 0, 99, 108, 122, 101, 114, 111,
  0, 99, 109, 99, 0, 99, 109, 111, 118, 97, 0, 99, 109, 111, 118, 97, 101, 0, 99, 109, 111, 118,
  99, 0, 99, 109, 111, 118, 103, 0, 99, 109, 111, 118, 103, 101, 0, 99, 109, 111, 118, 108, 0, 99,
  109, 111, 118, 108, 101, 0, 99, 109, 111, 118, 110, 97, 0, 99, 109, 111, 118, 110, 97, 101, 0,
  99, 109, 111, 118, 110, 99, 0, 99, 109, 111, 118, 110, 103, 0, 99, 109, 111, 118, 110, 103, 101,
  0, 99, 109, 111, 118, 110, 108, 0, 99, 109, 111, 118, 110, 108, 101, 0, 99, 109, 111, 118, 110,
  111, 0, 99, 109, 111, 118, 110, 112, 0, 99, 109, 111, 118, 110, 115, 0, 99, 109, 111, 118, 110,
  122, 0, 99, 109, 111, 118, 111, 0, 99, 109, 111, 118, 112, 0, 99, 109, 111, 118, 112, 101, 0, 99,
  109, 111, 118, 112, 111, 0, 99, 109, 111, 118, 115, 0, 99, 109, 111, 118, 122, 0, 99, 109, 112,
  0, 99, 109, 112, 120, 99, 104, 103, 0, 99, 109, 112, 120, 99, 104, 103, 49, 54, 98, 0, 99, 109,
  112, 120, 99, 104, 103, 56, 98, 0, 99, 112, 117, 105, 100, 0, 99, 113, 111, 0, 99, 114, 99, 51,
  50, 0, 99, 118, 116, 112, 100, 50, 112, 105, 0, 99, 118, 116, 112, 105, 50, 112, 100, 0, 99, 118,
  116, 112, 105, 50, 112, 115, 0, 99, 118, 116, 112, 115, 50, 112, 105, 0, 99, 118, 116, 116, 112,
  100, 50, 112, 105, 0, 99, 118, 116, 116, 112, 115, 50, 112, 105, 0, 99, 119, 100, 0, 99, 119,
  100, 101, 0, 100, 97, 97, 0, 100, 97, 115, 0, 101, 110, 116, 101, 114, 0, 102, 50, 120, 109, 49,
  0, 102, 97, 98, 115, 0, 102, 97, 100, 100, 112, 0, 102, 98, 108, 100, 0, 102, 98, 115, 116, 112,
  0, 102, 99, 104, 115, 0, 102, 99, 108, 101, 120, 0, 102, 99, 109, 111, 118, 98, 0, 102, 99, 109,
  111, 118, 98, 101, 0, 102, 99, 109, 111, 118, 101, 0, 102, 99, 109, 111, 118, 110, 98, 0, 102,
  99, 109, 111, 118, 110, 98, 101, 0, 102, 99, 109, 111, 118, 110, 101, 0, 102, 99, 109, 111, 118,
  110, 117, 0, 102, 99, 109, 111, 118, 117, 0, 102, 99, 111, 109, 0, 102, 99, 111, 109, 105, 0,
  102, 99, 111, 109, 105, 112, 0, 102, 99, 111, 109, 112, 0, 102, 99, 111, 109, 112, 112, 0, 102,
  99, 111, 115, 0, 102, 100, 101, 99, 115, 116, 112, 0, 102, 100, 105, 118, 0, 102, 100, 105, 118,
  112, 0, 102, 100, 105, 118, 114, 0, 102, 100, 105, 118, 114, 112, 0, 102, 101, 109, 109, 115, 0,
  102, 102, 114, 101, 101, 0, 102, 105, 97, 100, 100, 0, 102, 105, 99, 111, 109, 0, 102, 105, 99,
  111, 109, 112, 0, 102, 105, 100, 105, 118, 0, 102, 105, 100, 105, 118, 114, 0, 102, 105, 108,
  100, 0, 102, 105, 109, 117, 108, 0, 102, 105, 110, 99, 115, 116, 112, 0, 102, 105, 110, 105, 116,
  0, 102, 105, 115, 116, 0, 102, 105, 115, 116, 112, 0, 102, 105, 115, 116, 116, 112, 0, 102, 105,
  115, 117, 98, 0, 102, 105, 115, 117, 98, 114, 0, 102, 108, 100, 0, 102, 108, 100, 49, 0, 102,
  108, 100, 99, 119, 0, 102, 108, 100, 101, 110, 118, 0, 102, 108, 100, 108, 50, 101, 0, 102, 108,
  100, 108, 50, 116, 0, 102, 108, 100, 108, 103, 50, 0, 102, 108, 100, 108, 110, 50, 0, 102, 108,
  100, 112, 105, 0, 102, 108, 100, 122, 0, 102, 109, 117, 108, 112, 0, 102, 110, 99, 108, 101, 120,
  0, 102, 110, 105, 110, 105, 116, 0, 102, 110, 111, 112, 0, 102, 110, 115, 97, 118, 101, 0, 102,
  110, 115, 116, 99, 119, 0, 102, 110, 115, 116, 101, 110, 118, 0, 102, 110, 115, 116, 115, 119, 0,
  102, 112, 97, 116, 97, 110, 0, 102, 112, 114, 101, 109, 0, 102, 112, 114, 101, 109, 49, 0, 102,
  112, 116, 97, 110, 0, 102, 114, 110, 100, 105, 110, 116, 0, 102, 114, 115, 116, 111, 114, 0, 102,
  115, 97, 118, 101, 0, 102, 115, 99, 97, 108, 101, 0, 102, 115, 105, 110, 0, 102, 115, 105, 110,
  99, 111, 115, 0, 102, 115, 113, 114, 116, 0, 102, 115, 116, 0, 102, 115, 116, 99, 119, 0, 102,
  115, 116, 101, 110, 118, 0, 102, 115, 116, 112, 0, 102, 115, 116, 115, 119, 0, 102, 115, 117, 98,
  112, 0, 102, 115, 117, 98, 114, 112, 0, 102, 116, 115, 116, 0, 102, 117, 99, 111, 109, 0, 102,
  117, 99, 111, 109, 105, 0, 102, 117, 99, 111, 109, 105, 112, 0, 102, 117, 99, 111, 109, 112, 0,
  102, 117, 99, 111, 109, 112, 112, 0, 102, 119, 97, 105, 116, 0, 102, 120, 97, 109, 0, 102, 120,
  99, 104, 0, 102, 120, 114, 115, 116, 111, 114, 0, 102, 120, 114, 115, 116, 111, 114, 54, 52, 0,
  102, 120, 115, 97, 118, 101, 0, 102, 120, 115, 97, 118, 101, 54, 52, 0, 102, 120, 116, 114, 97,
  99, 116, 0, 102, 121, 108, 50, 120, 0, 102, 121, 108, 50, 120, 112, 49, 0, 105, 110, 99, 0, 105,
  110, 115, 101, 114, 116, 113, 0, 105, 110, 116, 51, 0, 105, 110, 116, 111, 0, 106, 97, 0, 106,
  97, 101, 0, 106, 98, 0, 106, 98, 101, 0, 106, 99, 0, 106, 101, 0, 106, 101, 99, 120, 122, 0, 106,
  103, 0, 106, 103, 101, 0, 106, 108, 0, 106, 108, 101, 0, 106, 109, 112, 0, 106, 110, 97, 0, 106,
  110, 97, 101, 0, 106, 110, 98, 0, 106, 110, 98, 101, 0, 106, 110, 99, 0, 106, 110, 101, 0, 106,
  110, 103, 0, 106, 110, 103, 101, 0, 106, 110, 108, 0, 106, 110, 108, 101, 0, 106, 110, 111, 0,
  106, 110, 112, 0, 106, 110, 115, 0, 106, 110, 122, 0, 106, 111, 0, 106, 112, 0, 106, 112, 101, 0,
  106, 112, 111, 0, 106, 115, 0, 106, 122, 0, 107, 97, 100, 100, 98, 0, 107, 97, 100, 100, 100, 0,
  107, 97, 100, 100, 113, 0, 107, 97, 100, 100, 119, 0, 107, 97, 110, 100, 98, 0, 107, 97, 110,
  100, 100, 0, 107, 97, 110, 100, 110, 98, 0, 107, 97, 110, 100, 110, 100, 0, 107, 97, 110, 100,
  110, 113, 0, 107, 97, 110, 100, 110, 119, 0, 107, 97, 110, 100, 113, 0, 107, 97, 110, 100, 119,
  0, 107, 109, 111, 118, 98, 0, 107, 109, 111, 118, 119, 0, 107, 110, 111, 116, 98, 0, 107, 110,
  111, 116, 100, 0, 107, 110, 111, 116, 113, 0, 107, 110, 111, 116, 119, 0, 107, 111, 114, 98, 0,
  107, 111, 114, 100, 0, 107, 111, 114, 113, 0, 107, 111, 114, 116, 101, 115, 116, 98, 0, 107, 111,
  114, 116, 101, 115, 116, 100, 0, 107, 111, 114, 116, 101, 115, 116, 113, 0, 107, 111, 114, 116,
  101, 115, 116, 119, 0, 107, 111, 114, 119, 0, 107, 115, 104, 105, 102, 116, 108, 98, 0, 107, 115,
  104, 105, 102, 116, 108, 100, 0, 107, 115, 104, 105, 102, 116, 108, 113, 0, 107, 115, 104, 105,
  102, 116, 108, 119, 0, 107, 115, 104, 105, 102, 116, 114, 98, 0, 107, 115, 104, 105, 102, 116,
  114, 100, 0, 107, 115, 104, 105, 102, 116, 114, 113, 0, 107, 115, 104, 105, 102, 116, 114, 119,
  0, 107, 116, 101, 115, 116, 98, 0, 107, 116, 101, 115, 116, 100, 0, 107, 116, 101, 115, 116, 113,
  0, 107, 116, 101, 115, 116, 119, 0, 107, 117, 110, 112, 99, 107, 98, 119, 0, 107, 117, 110, 112,
  99, 107, 100, 113, 0, 107, 117, 110, 112, 99, 107, 119, 100, 0, 107, 120, 110, 111, 114, 98, 0,
  107, 120, 110, 111, 114, 100, 0, 107, 120, 110, 111, 114, 113, 0, 107, 120, 110, 111, 114, 119,
  0, 107, 120, 111, 114, 98, 0, 107, 120, 111, 114, 100, 0, 107, 120, 111, 114, 113, 0, 107, 120,
  111, 114, 119, 0, 108, 97, 104, 102, 0, 108, 101, 97, 0, 108, 101, 97, 118, 101, 0, 108, 102,
  101, 110, 99, 101, 0, 108, 122, 99, 110, 116, 0, 109, 102, 101, 110, 99, 101, 0, 109, 111, 110,
  105, 116, 111, 114, 0, 109, 111, 118, 100, 113, 50, 113, 0, 109, 111, 118, 110, 116, 105, 0, 109,
  111, 118, 110, 116, 113, 0, 109, 111, 118, 110, 116, 115, 100, 0, 109, 111, 118, 110, 116, 115,
  115, 0, 109, 111, 118, 113, 50, 100, 113, 0, 109, 111, 118, 115, 120, 0, 109, 111, 118, 115, 120,
  100, 0, 109, 111, 118, 122, 120, 0, 109, 117, 108, 120, 0, 109, 119, 97, 105, 116, 0, 110, 101,
  103, 0, 110, 111, 116, 0, 112, 97, 117, 115, 101, 0, 112, 97, 118, 103, 117, 115, 98, 0, 112, 99,
  111, 109, 109, 105, 116, 0, 112, 100, 101, 112, 0, 112, 101, 120, 116, 0, 112, 102, 50, 105, 100,
  0, 112, 102, 50, 105, 119, 0, 112, 102, 97, 99, 99, 0, 112, 102, 97, 100, 100, 0, 112, 102, 99,
  109, 112, 101, 113, 0, 112, 102, 99, 109, 112, 103, 101, 0, 112, 102, 99, 109, 112, 103, 116, 0,
  112, 102, 109, 97, 120, 0, 112, 102, 109, 105, 110, 0, 112, 102, 109, 117, 108, 0, 112, 102, 110,
  97, 99, 99, 0, 112, 102, 112, 110, 97, 99, 99, 0, 112, 102, 114, 99, 112, 0, 112, 102, 114, 99,
  112, 105, 116, 49, 0, 112, 102, 114, 99, 112, 105, 116, 50, 0, 112, 102, 114, 99, 112, 118, 0,
  112, 102, 114, 115, 113, 105, 116, 49, 0, 112, 102, 114, 115, 113, 114, 116, 0, 112, 102, 114,
  115, 113, 114, 116, 118, 0, 112, 102, 115, 117, 98, 0, 112, 102, 115, 117, 98, 114, 0, 112, 105,
  50, 102, 100, 0, 112, 105, 50, 102, 119, 0, 112, 109, 117, 108, 104, 114, 119, 0, 112, 111, 112,
  0, 112, 111, 112, 97, 0, 112, 111, 112, 99, 110, 116, 0, 112, 111, 112, 102, 0, 112, 114, 101,
  102, 101, 116, 99, 104, 0, 112, 114, 101, 102, 101, 116, 99, 104, 51, 100, 110, 111, 119, 0, 112,
  114, 101, 102, 101, 116, 99, 104, 119, 0, 112, 114, 101, 102, 101, 116, 99, 104, 119, 116, 49, 0,
  112, 115, 104, 117, 102, 119, 0, 112, 115, 119, 97, 112, 100, 0, 112, 117, 115, 104, 0, 112, 117,
  115, 104, 97, 0, 112, 117, 115, 104, 102, 0, 114, 99, 108, 0, 114, 99, 114, 0, 114, 100, 102,
  115, 98, 97, 115, 101, 0, 114, 100, 103, 115, 98, 97, 115, 101, 0, 114, 100, 114, 97, 110, 100,
  0, 114, 100, 115, 101, 101, 100, 0, 114, 100, 116, 115, 99, 0, 114, 100, 116, 115, 99, 112, 0,
  114, 101, 112, 32, 108, 111, 100, 115, 95, 98, 0, 114, 101, 112, 32, 108, 111, 100, 115, 95, 100,
  0, 114, 101, 112, 32, 108, 111, 100, 115, 95, 113, 0, 114, 101, 112, 32, 108, 111, 100, 115, 95,
  119, 0, 114, 101, 112, 32, 109, 111, 118, 115, 95, 98, 0, 114, 101, 112, 32, 109, 111, 118, 115,
  95, 100, 0, 114, 101, 112, 32, 109, 111, 118, 115, 95, 113, 0, 114, 101, 112, 32, 109, 111, 118,
  115, 95, 119, 0, 114, 101, 112, 32, 115, 116, 111, 115, 95, 98, 0, 114, 101, 112, 32, 115, 116,
  111, 115, 95, 100, 0, 114, 101, 112, 32, 115, 116, 111, 115, 95, 113, 0, 114, 101, 112, 32, 115,
  116, 111, 115, 95, 119, 0, 114, 101, 112, 101, 32, 99, 109, 112, 115, 95, 98, 0, 114, 101, 112,
  101, 32, 99, 109, 112, 115, 95, 100, 0, 114, 101, 112, 101, 32, 99, 109, 112, 115, 95, 113, 0,
  114, 101, 112, 101, 32, 99, 109, 112, 115, 95, 119, 0, 114, 101, 112, 101, 32, 115, 99, 97, 115,
  95, 98, 0, 114, 101, 112, 101, 32, 115, 99, 97, 115, 95, 100, 0, 114, 101, 112, 101, 32, 115, 99,
  97, 115, 95, 113, 0, 114, 101, 112, 101, 32, 115, 99, 97, 115, 95, 119, 0, 114, 101, 112, 110,
  101, 32, 99, 109, 112, 115, 95, 98, 0, 114, 101, 112, 110, 101, 32, 99, 109, 112, 115, 95, 100,
  0, 114, 101, 112, 110, 101, 32, 99, 109, 112, 115, 95, 113, 0, 114, 101, 112, 110, 101, 32, 99,
  109, 112, 115, 95, 119, 0, 114, 101, 112, 110, 101, 32, 115, 99, 97, 115, 95, 98, 0, 114, 101,
  112, 110, 101, 32, 115, 99, 97, 115, 95, 100, 0, 114, 101, 112, 110, 101, 32, 115, 99, 97, 115,
  95, 113, 0, 114, 101, 112, 110, 101, 32, 115, 99, 97, 115, 95, 119, 0, 114, 101, 116, 0, 114,
  111, 108, 0, 114, 111, 114, 0, 114, 111, 114, 120, 0, 115, 97, 104, 102, 0, 115, 97, 108, 0, 115,
  97, 114, 0, 115, 97, 114, 120, 0, 115, 98, 98, 0, 115, 101, 116, 97, 0, 115, 101, 116, 97, 101,
  0, 115, 101, 116, 98, 0, 115, 101, 116, 98, 101, 0, 115, 101, 116, 99, 0, 115, 101, 116, 101, 0,
  115, 101, 116, 103, 0, 115, 101, 116, 103, 101, 0, 115, 101, 116, 108, 0, 115, 101, 116, 108,
  101, 0, 115, 101, 116, 110, 97, 0, 115, 101, 116, 110, 97, 101, 0, 115, 101, 116, 110, 98, 0,
  115, 101, 116, 110, 98, 101, 0, 115, 101, 116, 110, 99, 0, 115, 101, 116, 110, 101, 0, 115, 101,
  116, 110, 103, 0, 115, 101, 116, 110, 103, 101, 0, 115, 101, 116, 110, 108, 0, 115, 101, 116,
  110, 108, 101, 0, 115, 101, 116, 110, 111, 0, 115, 101, 116, 110, 112, 0, 115, 101, 116, 110,
  115, 0, 115, 101, 116, 110, 122, 0, 115, 101, 116, 111, 0, 115, 101, 116, 112, 0, 115, 101, 116,
  112, 101, 0, 115, 101, 116, 112, 111, 0, 115, 101, 116, 115, 0, 115, 101, 116, 122, 0, 115, 102,
  101, 110, 99, 101, 0, 115, 104, 97, 49, 109, 115, 103, 49, 0, 115, 104, 97, 49, 109, 115, 103,
  50, 0, 115, 104, 97, 49, 110, 101, 120, 116, 101, 0, 115, 104, 97, 49, 114, 110, 100, 115, 52, 0,
  115, 104, 97, 50, 53, 54, 109, 115, 103, 49, 0, 115, 104, 97, 50, 53, 54, 109, 115, 103, 50, 0,
  115, 104, 97, 50, 53, 54, 114, 110, 100, 115, 50, 0, 115, 104, 108, 0, 115, 104, 108, 120, 0,
  115, 104, 114, 0, 115, 104, 114, 100, 0, 115, 104, 114, 120, 0, 115, 116, 97, 99, 0, 115, 116,
  99, 0, 115, 116, 105, 0, 116, 49, 109, 115, 107, 99, 0, 116, 122, 99, 110, 116, 0, 116, 122, 109,
  115, 107, 0, 117, 100, 50, 0, 118, 97, 100, 100, 112, 100, 0, 118, 97, 100, 100, 112, 115, 0,
  118, 97, 100, 100, 115, 100, 0, 118, 97, 100, 100, 115, 115, 0, 118, 97, 100, 100, 115, 117, 98,
  112, 100, 0, 118, 97, 100, 100, 115, 117, 98, 112, 115, 0, 118, 97, 101, 115, 100, 101, 99, 0,
  118, 97, 101, 115, 100, 101, 99, 108, 97, 115, 116, 0, 118, 97, 101, 115, 101, 110, 99, 0, 118,
  97, 101, 115, 101, 110, 99, 108, 97, 115, 116, 0, 118, 97, 101, 115, 105, 109, 99, 0, 118, 97,
  101, 115, 107, 101, 121, 103, 101, 110, 97, 115, 115, 105, 115, 116, 0, 118, 97, 108, 105, 103,
  110, 100, 0, 118, 97, 108, 105, 103, 110, 113, 0, 118, 97, 110, 100, 110, 112, 100, 0, 118, 97,
  110, 100, 110, 112, 115, 0, 118, 97, 110, 100, 112, 100, 0, 118, 97, 110, 100, 112, 115, 0, 118,
  98, 108, 101, 110, 100, 109, 98, 0, 118, 98, 108, 101, 110, 100, 109, 100, 0, 118, 98, 108, 101,
  110, 100, 109, 112, 100, 0, 118, 98, 108, 101, 110, 100, 109, 112, 115, 0, 118, 98, 108, 101,
  110, 100, 109, 113, 0, 118, 98, 108, 101, 110, 100, 109, 119, 0, 118, 98, 108, 101, 110, 100,
  112, 100, 0, 118, 98, 108, 101, 110, 100, 112, 115, 0, 118, 98, 108, 101, 110, 100, 118, 112,
  100, 0, 118, 98, 108, 101, 110, 100, 118, 112, 115, 0, 118, 98, 114, 111, 97, 100, 99, 97, 115,
  116, 102, 49, 50, 56, 0, 118, 98, 114, 111, 97, 100, 99, 97, 115, 116, 102, 51, 50, 120, 50, 0,
  118, 98, 114, 111, 97, 100, 99, 97, 115, 116, 102, 51, 50, 120, 52, 0, 118, 98, 114, 111, 97,
  100, 99, 97, 115, 116, 102, 51, 50, 120, 56, 0, 118, 98, 114, 111, 97, 100, 99, 97, 115, 116,
  102, 54, 52, 120, 50, 0, 118, 98, 114, 111, 97, 100, 99, 97, 115, 116, 102, 54, 52, 120, 52, 0,
  118, 98, 114, 111, 97, 100, 99, 97, 115, 116, 105, 49, 50, 56, 0, 118, 98, 114, 111, 97, 100, 99,
  97, 115, 116, 105, 51, 50, 120, 50, 0, 118, 98, 114, 111, 97, 100, 99, 97, 115, 116, 105, 51, 50,
  120, 52, 0, 118, 98, 114, 111, 97, 100, 99, 97, 115, 116, 105, 51, 50, 120, 56, 0, 118, 98, 114,
  111, 97, 100, 99, 97, 115, 116, 105, 54, 52, 120, 50, 0, 118, 98, 114, 111, 97, 100, 99, 97, 115,
  116, 105, 54, 52, 120, 52, 0, 118, 98, 114, 111, 97, 100, 99, 97, 115, 116, 115, 100, 0, 118, 98,
  114, 111, 97, 100, 99, 97, 115, 116, 115, 115, 0, 118, 99, 109, 112, 112, 100, 0, 118, 99, 109,
  112, 112, 115, 0, 118, 99, 109, 112, 115, 100, 0, 118, 99, 109, 112, 115, 115, 0, 118, 99, 111,
  109, 105, 115, 100, 0, 118, 99, 111, 109, 105, 115, 115, 0, 118, 99, 111, 109, 112, 114, 101,
  115, 115, 112, 100, 0, 118, 99, 111, 109, 112, 114, 101, 115, 115, 112, 115, 0, 118, 99, 118,
  116, 100, 113, 50, 112, 100, 0, 118, 99, 118, 116, 100, 113, 50, 112, 115, 0, 118, 99, 118, 116,
  112, 100, 50, 100, 113, 0, 118, 99, 118, 116, 112, 100, 50, 112, 115, 0, 118, 99, 118, 116, 112,
  100, 50, 113, 113, 0, 118, 99, 118, 116, 112, 100, 50, 117, 100, 113, 0, 118, 99, 118, 116, 112,
  100, 50, 117, 113, 113, 0, 118, 99, 118, 116, 112, 104, 50, 112, 115, 0, 118, 99, 118, 116, 112,
  115, 50, 100, 113, 0, 118, 99, 118, 116, 112, 115, 50, 112, 100, 0, 118, 99, 118, 116, 112, 115,
  50, 112, 104, 0, 118, 99, 118, 116, 112, 115, 50, 113, 113, 0, 118, 99, 118, 116, 112, 115, 50,
  117, 100, 113, 0, 118, 99, 118, 116, 112, 115, 50, 117, 113, 113, 0, 118, 99, 118, 116, 113, 113,
  50, 112, 100, 0, 118, 99, 118, 116, 113, 113, 50, 112, 115, 0, 118, 99, 118, 116, 115, 100, 50,
  115, 105, 0, 118, 99, 118, 116, 115, 100, 50, 115, 115, 0, 118, 99, 118, 116, 115, 100, 50, 117,
  115, 105, 0, 118, 99, 118, 116, 115, 105, 50, 115, 100, 0, 118, 99, 118, 116, 115, 105, 50, 115,
  115, 0, 118, 99, 118, 116, 115, 115, 50, 115, 100, 0, 118, 99, 118, 116, 115, 115, 50, 115, 105,
  0, 118, 99, 118, 116, 115, 115, 50, 117, 115, 105, 0, 118, 99, 118, 116, 116, 112, 100, 50, 100,
  113, 0, 118, 99, 118, 116, 116, 112, 100, 50, 113, 113, 0, 118, 99, 118, 116, 116, 112, 100, 50,
  117, 100, 113, 0, 118, 99, 118, 116, 116, 112, 100, 50, 117, 113, 113, 0, 118, 99, 118, 116, 116,
  112, 115, 50, 100, 113, 0, 118, 99, 118, 116, 116, 112, 115, 50, 113, 113, 0, 118, 99, 118, 116,
  116, 112, 115, 50, 117, 100, 113, 0, 118, 99, 118, 116, 116, 112, 115, 50, 117, 113, 113, 0, 118,
  99, 118, 116, 116, 115, 100, 50, 115, 105, 0, 118, 99, 118, 116, 116, 115, 100, 50, 117, 115,
  105, 0, 118, 99, 118, 116, 116, 115, 115, 50, 115, 105, 0, 118, 99, 118, 116, 116, 115, 115, 50,
  117, 115, 105, 0, 118, 99, 118, 116, 117, 100, 113, 50, 112, 100, 0, 118, 99, 118, 116, 117, 100,
  113, 50, 112, 115, 0, 118, 99, 118, 116, 117, 113, 113, 50, 112, 100, 0, 118, 99, 118, 116, 117,
  113, 113, 50, 112, 115, 0, 118, 99, 118, 116, 117, 115, 105, 50, 115, 100, 0, 118, 99, 118, 116,
  117, 115, 105, 50, 115, 115, 0, 118, 100, 98, 112, 115, 97, 100, 98, 119, 0, 118, 100, 105, 118,
  112, 100, 0, 118, 100, 105, 118, 112, 115, 0, 118, 100, 105, 118, 115, 100, 0, 118, 100, 105,
  118, 115, 115, 0, 118, 100, 112, 112, 100, 0, 118, 100, 112, 112, 115, 0, 118, 101, 120, 112, 50,
  112, 100, 0, 118, 101, 120, 112, 50, 112, 115, 0, 118, 101, 120, 112, 97, 110, 100, 112, 100, 0,
  118, 101, 120, 112, 97, 110, 100, 112, 115, 0, 118, 101, 120, 116, 114, 97, 99, 116, 102, 49, 50,
  56, 0, 118, 101, 120, 116, 114, 97, 99, 116, 102, 51, 50, 120, 52, 0, 118, 101, 120, 116, 114,
  97, 99, 116, 102, 51, 50, 120, 56, 0, 118, 101, 120, 116, 114, 97, 99, 116, 102, 54, 52, 120, 50,
  0, 118, 101, 120, 116, 114, 97, 99, 116, 102, 54, 52, 120, 52, 0, 118, 101, 120, 116, 114, 97,
  99, 116, 105, 49, 50, 56, 0, 118, 101, 120, 116, 114, 97, 99, 116, 105, 51, 50, 120, 52, 0, 118,
  101, 120, 116, 114, 97, 99, 116, 105, 51, 50, 120, 56, 0, 118, 101, 120, 116, 114, 97, 99, 116,
  105, 54, 52, 120, 50, 0, 118, 101, 120, 116, 114, 97, 99, 116, 105, 54, 52, 120, 52, 0, 118, 101,
  120, 116, 114, 97, 99, 116, 112, 115, 0, 118, 102, 105, 120, 117, 112, 105, 109, 109, 112, 100,
  0, 118, 102, 105, 120, 117, 112, 105, 109, 109, 112, 115, 0, 118, 102, 105, 120, 117, 112, 105,
  109, 109, 115, 100, 0, 118, 102, 105, 120, 117, 112, 105, 109, 109, 115, 115, 0, 118, 102, 109,
  97, 100, 100, 49, 51, 50, 112, 100, 0, 118, 102, 109, 97, 100, 100, 49, 51, 50, 112, 115, 0, 118,
  102, 109, 97, 100, 100, 49, 51, 50, 115, 100, 0, 118, 102, 109, 97, 100, 100, 49, 51, 50, 115,
  115, 0, 118, 102, 109, 97, 100, 100, 50, 49, 51, 112, 100, 0, 118, 102, 109, 97, 100, 100, 50,
  49, 51, 112, 115, 0, 118, 102, 109, 97, 100, 100, 50, 49, 51, 115, 100, 0, 118, 102, 109, 97,
  100, 100, 50, 49, 51, 115, 115, 0, 118, 102, 109, 97, 100, 100, 50, 51, 49, 112, 100, 0, 118,
  102, 109, 97, 100, 100, 50, 51, 49, 112, 115, 0, 118, 102, 109, 97, 100, 100, 50, 51, 49, 115,
  100, 0, 118, 102, 109, 97, 100, 100, 50, 51, 49, 115, 115, 0, 118, 102, 109, 97, 100, 100, 112,
  100, 0, 118, 102, 109, 97, 100, 100, 112, 115, 0, 118, 102, 109, 97, 100, 100, 115, 100, 0, 118,
  102, 109, 97, 100, 100, 115, 115, 0, 118, 102, 109, 97, 100, 100, 115, 117, 98, 49, 51, 50, 112,
  100, 0, 118, 102, 109, 97, 100, 100, 115, 117, 98, 49, 51, 50, 112, 115, 0, 118, 102, 109, 97,
  100, 100, 115, 117, 98, 50, 49, 51, 112, 100, 0, 118, 102, 109, 97, 100, 100, 115, 117, 98, 50,
  49, 51, 112, 115, 0, 118, 102, 109, 97, 100, 100, 115, 117, 98, 50, 51, 49, 112, 100, 0, 118,
  102, 109, 97, 100, 100, 115, 117, 98, 50, 51, 49, 112, 115, 0, 118, 102, 109, 97, 100, 100, 115,
  117, 98, 112, 100, 0, 118, 102, 109, 97, 100, 100, 115, 117, 98, 112, 115, 0, 118, 102, 109, 115,
  117, 98, 49, 51, 50, 112, 100, 0, 118, 102, 109, 115, 117, 98, 49, 51, 50, 112, 115, 0, 118, 102,
  109, 115, 117, 98, 49, 51, 50, 115, 100, 0, 118, 102, 109, 115, 117, 98, 49, 51, 50, 115, 115, 0,
  118, 102, 109, 115, 117, 98, 50, 49, 51, 112, 100, 0, 118, 102, 109, 115, 117, 98, 50, 49, 51,
  112, 115, 0, 118, 102, 109, 115, 117, 98, 50, 49, 51, 115, 100, 0, 118, 102, 109, 115, 117, 98,
  50, 49, 51, 115, 115, 0, 118, 102, 109, 115, 117, 98, 50, 51, 49, 112, 100, 0, 118, 102, 109,
  115, 117, 98, 50, 51, 49, 112, 115, 0, 118, 102, 109, 115, 117, 98, 50, 51, 49, 115, 100, 0, 118,
  102, 109, 115, 117, 98, 50, 51, 49, 115, 115, 0, 118, 102, 109, 115, 117, 98, 97, 100, 100, 49,
  51, 50, 112, 100, 0, 118, 102, 109, 115, 117, 98, 97, 100, 100, 49, 51, 50, 112, 115, 0, 118,
  102, 109, 115, 117, 98, 97, 100, 100, 50, 49, 51, 112, 100, 0, 118, 102, 109, 115, 117, 98, 97,
  100, 100, 50, 49, 51, 112, 115, 0, 118, 102, 109, 115, 117, 98, 97, 100, 100, 50, 51, 49, 112,
  100, 0, 118, 102, 109, 115, 117, 98, 97, 100, 100, 50, 51, 49, 112, 115, 0, 118, 102, 109, 115,
  117, 98, 97, 100, 100, 112, 100, 0, 118, 102, 109, 115, 117, 98, 97, 100, 100, 112, 115, 0, 118,
  102, 109, 115, 117, 98, 112, 100, 0, 118, 102, 109, 115, 117, 98, 112, 115, 0, 118, 102, 109,
  115, 117, 98, 115, 100, 0, 118, 102, 109, 115, 117, 98, 115, 115, 0, 118, 102, 110, 109, 97, 100,
  100, 49, 51, 50, 112, 100, 0, 118, 102, 110, 109, 97, 100, 100, 49, 51, 50, 112, 115, 0, 118,
  102, 110, 109, 97, 100, 100, 49, 51, 50, 115, 100, 0, 118, 102, 110, 109, 97, 100, 100, 49, 51,
  50, 115, 115, 0, 118, 102, 110, 109, 97, 100, 100, 50, 49, 51, 112, 100, 0, 118, 102, 110, 109,
  97, 100, 100, 50, 49, 51, 112, 115, 0, 118, 102, 110, 109, 97, 100, 100, 50, 49, 51, 115, 100, 0,
  118, 102, 110, 109, 97, 100, 100, 50, 49, 51, 115, 115, 0, 118, 102, 110, 109, 97, 100, 100, 50,
  51, 49, 112, 100, 0, 118, 102, 110, 109, 97, 100, 100, 50, 51, 49, 112, 115, 0, 118, 102, 110,
  109, 97, 100, 100, 50, 51, 49, 115, 100, 0, 118, 102, 110, 109, 97, 100, 100, 50, 51, 49, 115,
  115, 0, 118, 102, 110, 109, 97, 100, 100, 112, 100, 0, 118, 102, 110, 109, 97, 100, 100, 112,
  115, 0, 118, 102, 110, 109, 97, 100, 100, 115, 100, 0, 118, 102, 110, 109, 97, 100, 100, 115,
  115, 0, 118, 102, 110, 109, 115, 117, 98, 49, 51, 50, 112, 100, 0, 118, 102, 110, 109, 115, 117,
  98, 49, 51, 50, 112, 115, 0, 118, 102, 110, 109, 115, 117, 98, 49, 51, 50, 115, 100, 0, 118, 102,
  110, 109, 115, 117, 98, 49, 51, 50, 115, 115, 0, 118, 102, 110, 109, 115, 117, 98, 50, 49, 51,
  112, 100, 0, 118, 102, 110, 109, 115, 117, 98, 50, 49, 51, 112, 115, 0, 118, 102, 110, 109, 115,
  117, 98, 50, 49, 51, 115, 100, 0, 118, 102, 110, 109, 115, 117, 98, 50, 49, 51, 115, 115, 0, 118,
  102, 110, 109, 115, 117, 98, 50, 51, 49, 112, 100, 0, 118, 102, 110, 109, 115, 117, 98, 50, 51,
  49, 112, 115, 0, 118, 102, 110, 109, 115, 117, 98, 50, 51, 49, 115, 100, 0, 118, 102, 110, 109,
  115, 117, 98, 50, 51, 49, 115, 115, 0, 118, 102, 110, 109, 115, 117, 98, 112, 100, 0, 118, 102,
  110, 109, 115, 117, 98, 112, 115, 0, 118, 102, 110, 109, 115, 117, 98, 115, 100, 0, 118, 102,
  110, 109, 115, 117, 98, 115, 115, 0, 118, 102, 112, 99, 108, 97, 115, 115, 112, 100, 0, 118, 102,
  112, 99, 108, 97, 115, 115, 112, 115, 0, 118, 102, 112, 99, 108, 97, 115, 115, 115, 100, 0, 118,
  102, 112, 99, 108, 97, 115, 115, 115, 115, 0, 118, 102, 114, 99, 122, 112, 100, 0, 118, 102, 114,
  99, 122, 112, 115, 0, 118, 102, 114, 99, 122, 115, 100, 0, 118, 102, 114, 99, 122, 115, 115, 0,
  118, 103, 97, 116, 104, 101, 114, 100, 112, 100, 0, 118, 103, 97, 116, 104, 101, 114, 100, 112,
  115, 0, 118, 103, 97, 116, 104, 101, 114, 112, 102, 48, 100, 112, 100, 0, 118, 103, 97, 116, 104,
  101, 114, 112, 102, 48, 100, 112, 115, 0, 118, 103, 97, 116, 104, 101, 114, 112, 102, 48, 113,
  112, 100, 0, 118, 103, 97, 116, 104, 101, 114, 112, 102, 48, 113, 112, 115, 0, 118, 103, 97, 116,
  104, 101, 114, 112, 102, 49, 100, 112, 100, 0, 118, 103, 97, 116, 104, 101, 114, 112, 102, 49,
  100, 112, 115, 0, 118, 103, 97, 116, 104, 101, 114, 112, 102, 49, 113, 112, 100, 0, 118, 103, 97,
  116, 104, 101, 114, 112, 102, 49, 113, 112, 115, 0, 118, 103, 97, 116, 104, 101, 114, 113, 112,
  100, 0, 118, 103, 97, 116, 104, 101, 114, 113, 112, 115, 0, 118, 103, 101, 116, 101, 120, 112,
  112, 100, 0, 118, 103, 101, 116, 101, 120, 112, 112, 115, 0, 118, 103, 101, 116, 101, 120, 112,
  115, 100, 0, 118, 103, 101, 116, 101, 120, 112, 115, 115, 0, 118, 103, 101, 116, 109, 97, 110,
  116, 112, 100, 0, 118, 103, 101, 116, 109, 97, 110, 116, 112, 115, 0, 118, 103, 101, 116, 109,
  97, 110, 116, 115, 100, 0, 118, 103, 101, 116, 109, 97, 110, 116, 115, 115, 0, 118, 104, 97, 100,
  100, 112, 100, 0, 118, 104, 97, 100, 100, 112, 115, 0, 118, 104, 115, 117, 98, 112, 100, 0, 118,
  104, 115, 117, 98, 112, 115, 0, 118, 105, 110, 115, 101, 114, 116, 102, 49, 50, 56, 0, 118, 105,
  110, 115, 101, 114, 116, 102, 51, 50, 120, 52, 0, 118, 105, 110, 115, 101, 114, 116, 102, 51, 50,
  120, 56, 0, 118, 105, 110, 115, 101, 114, 116, 102, 54, 52, 120, 50, 0, 118, 105, 110, 115, 101,
  114, 116, 102, 54, 52, 120, 52, 0, 118, 105, 110, 115, 101, 114, 116, 105, 49, 50, 56, 0, 118,
  105, 110, 115, 101, 114, 116, 105, 51, 50, 120, 52, 0, 118, 105, 110, 115, 101, 114, 116, 105,
  51, 50, 120, 56, 0, 118, 105, 110, 115, 101, 114, 116, 105, 54, 52, 120, 50, 0, 118, 105, 110,
  115, 101, 114, 116, 105, 54, 52, 120, 52, 0, 118, 105, 110, 115, 101, 114, 116, 112, 115, 0, 118,
  108, 100, 100, 113, 117, 0, 118, 108, 100, 109, 120, 99, 115, 114, 0, 118, 109, 97, 115, 107,
  109, 111, 118, 100, 113, 117, 0, 118, 109, 97, 115, 107, 109, 111, 118, 112, 100, 0, 118, 109,
  97, 115, 107, 109, 111, 118, 112, 115, 0, 118, 109, 97, 120, 112, 100, 0, 118, 109, 97, 120, 112,
  115, 0, 118, 109, 97, 120, 115, 100, 0, 118, 109, 97, 120, 115, 115, 0, 118, 109, 105, 110, 112,
  100, 0, 118, 109, 105, 110, 112, 115, 0, 118, 109, 105, 110, 115, 100, 0, 118, 109, 105, 110,
  115, 115, 0, 118, 109, 111, 118, 97, 112, 100, 0, 118, 109, 111, 118, 97, 112, 115, 0, 118, 109,
  111, 118, 100, 0, 118, 109, 111, 118, 100, 100, 117, 112, 0, 118, 109, 111, 118, 100, 113, 97, 0,
  118, 109, 111, 118, 100, 113, 97, 51, 50, 0, 118, 109, 111, 118, 100, 113, 97, 54, 52, 0, 118,
  109, 111, 118, 100, 113, 117, 0, 118, 109, 111, 118, 100, 113, 117, 49, 54, 0, 118, 109, 111,
  118, 100, 113, 117, 51, 50, 0, 118, 109, 111, 118, 100, 113, 117, 54, 52, 0, 118, 109, 111, 118,
  100, 113, 117, 56, 0, 118, 109, 111, 118, 104, 108, 112, 115, 0, 118, 109, 111, 118, 104, 112,
  100, 0, 118, 109, 111, 118, 104, 112, 115, 0, 118, 109, 111, 118, 108, 104, 112, 115, 0, 118,
  109, 111, 118, 108, 112, 100, 0, 118, 109, 111, 118, 108, 112, 115, 0, 118, 109, 111, 118, 109,
  115, 107, 112, 100, 0, 118, 109, 111, 118, 109, 115, 107, 112, 115, 0, 118, 109, 111, 118, 110,
  116, 100, 113, 0, 118, 109, 111, 118, 110, 116, 100, 113, 97, 0, 118, 109, 111, 118, 110, 116,
  112, 100, 0, 118, 109, 111, 118, 110, 116, 112, 115, 0, 118, 109, 111, 118, 113, 0, 118, 109,
  111, 118, 115, 100, 0, 118, 109, 111, 118, 115, 104, 100, 117, 112, 0, 118, 109, 111, 118, 115,
  108, 100, 117, 112, 0, 118, 109, 111, 118, 115, 115, 0, 118, 109, 111, 118, 117, 112, 100, 0,
  118, 109, 111, 118, 117, 112, 115, 0, 118, 109, 112, 115, 97, 100, 98, 119, 0, 118, 109, 117,
  108, 112, 100, 0, 118, 109, 117, 108, 112, 115, 0, 118, 109, 117, 108, 115, 100, 0, 118, 109,
  117, 108, 115, 115, 0, 118, 111, 114, 112, 100, 0, 118, 111, 114, 112, 115, 0, 118, 112, 97, 98,
  115, 98, 0, 118, 112, 97, 98, 115, 100, 0, 118, 112, 97, 98, 115, 113, 0, 118, 112, 97, 98, 115,
  119, 0, 118, 112, 97, 99, 107, 115, 115, 100, 119, 0, 118, 112, 97, 99, 107, 115, 115, 119, 98,
  0, 118, 112, 97, 99, 107, 117, 115, 100, 119, 0, 118, 112, 97, 99, 107, 117, 115, 119, 98, 0,
  118, 112, 97, 100, 100, 98, 0, 118, 112, 97, 100, 100, 100, 0, 118, 112, 97, 100, 100, 113, 0,
  118, 112, 97, 100, 100, 115, 98, 0, 118, 112, 97, 100, 100, 115, 119, 0, 118, 112, 97, 100, 100,
  117, 115, 98, 0, 118, 112, 97, 100, 100, 117, 115, 119, 0, 118, 112, 97, 100, 100, 119, 0, 118,
  112, 97, 108, 105, 103, 110, 114, 0, 118, 112, 97, 110, 100, 0, 118, 112, 97, 110, 100, 100, 0,
  118, 112, 97, 110, 100, 110, 0, 118, 112, 97, 110, 100, 110, 100, 0, 118, 112, 97, 110, 100, 110,
  113, 0, 118, 112, 97, 110, 100, 113, 0, 118, 112, 97, 118, 103, 98, 0, 118, 112, 97, 118, 103,
  119, 0, 118, 112, 98, 108, 101, 110, 100, 100, 0, 118, 112, 98, 108, 101, 110, 100, 118, 98, 0,
  118, 112, 98, 108, 101, 110, 100, 119, 0, 118, 112, 98, 114, 111, 97, 100, 99, 97, 115, 116, 98,
  0, 118, 112, 98, 114, 111, 97, 100, 99, 97, 115, 116, 100, 0, 118, 112, 98, 114, 111, 97, 100,
  99, 97, 115, 116, 109, 98, 50, 100, 0, 118, 112, 98, 114, 111, 97, 100, 99, 97, 115, 116, 109,
  98, 50, 113, 0, 118, 112, 98, 114, 111, 97, 100, 99, 97, 115, 116, 113, 0, 118, 112, 98, 114,
  111, 97, 100, 99, 97, 115, 116, 119, 0, 118, 112, 99, 108, 109, 117, 108, 113, 100, 113, 0, 118,
  112, 99, 109, 111, 118, 0, 118, 112, 99, 109, 112, 98, 0, 118, 112, 99, 109, 112, 100, 0, 118,
  112, 99, 109, 112, 101, 113, 98, 0, 118, 112, 99, 109, 112, 101, 113, 100, 0, 118, 112, 99, 109,
  112, 101, 113, 113, 0, 118, 112, 99, 109, 112, 101, 113, 119, 0, 118, 112, 99, 109, 112, 101,
  115, 116, 114, 105, 0, 118, 112, 99, 109, 112, 101, 115, 116, 114, 109, 0, 118, 112, 99, 109,
  112, 103, 116, 98, 0, 118, 112, 99, 109, 112, 103, 116, 100, 0, 118, 112, 99, 109, 112, 103, 116,
  113, 0, 118, 112, 99, 109, 112, 103, 116, 119, 0, 118, 112, 99, 109, 112, 105, 115, 116, 114,
  105, 0, 118, 112, 99, 109, 112, 105, 115, 116, 114, 109, 0, 118, 112, 99, 109, 112, 113, 0, 118,
  112, 99, 109, 112, 117, 98, 0, 118, 112, 99, 109, 112, 117, 100, 0, 118, 112, 99, 109, 112, 117,
  113, 0, 118, 112, 99, 109, 112, 117, 119, 0, 118, 112, 99, 109, 112, 119, 0, 118, 112, 99, 111,
  109, 98, 0, 118, 112, 99, 111, 109, 100, 0, 118, 112, 99, 111, 109, 112, 114, 101, 115, 115, 100,
  0, 118, 112, 99, 111, 109, 112, 114, 101, 115, 115, 113, 0, 118, 112, 99, 111, 109, 113, 0, 118,
  112, 99, 111, 109, 117, 98, 0, 118, 112, 99, 111, 109, 117, 100, 0, 118, 112, 99, 111, 109, 117,
  113, 0, 118, 112, 99, 111, 109, 117, 119, 0, 118, 112, 99, 111, 109, 119, 0, 118, 112, 99, 111,
  110, 102, 108, 105, 99, 116, 100, 0, 118, 112, 99, 111, 110, 102, 108, 105, 99, 116, 113, 0, 118,
  112, 101, 114, 109, 50, 102, 49, 50, 56, 0, 118, 112, 101, 114, 109, 50, 105, 49, 50, 56, 0, 118,
  112, 101, 114, 109, 98, 0, 118, 112, 101, 114, 109, 100, 0, 118, 112, 101, 114, 109, 105, 50, 98,
  0, 118, 112, 101, 114, 109, 105, 50, 100, 0, 118, 112, 101, 114, 109, 105, 50, 112, 100, 0, 118,
  112, 101, 114, 109, 105, 50, 112, 115, 0, 118, 112, 101, 114, 109, 105, 50, 113, 0, 118, 112,
  101, 114, 109, 105, 50, 119, 0, 118, 112, 101, 114, 109, 105, 108, 50, 112, 100, 0, 118, 112,
  101, 114, 109, 105, 108, 50, 112, 115, 0, 118, 112, 101, 114, 109, 105, 108, 112, 100, 0, 118,
  112, 101, 114, 109, 105, 108, 112, 115, 0, 118, 112, 101, 114, 109, 112, 100, 0, 118, 112, 101,
  114, 109, 112, 115, 0, 118, 112, 101, 114, 109, 113, 0, 118, 112, 101, 114, 109, 116, 50, 98, 0,
  118, 112, 101, 114, 109, 116, 50, 100, 0, 118, 112, 101, 114, 109, 116, 50, 112, 100, 0, 118,
  112, 101, 114, 109, 116, 50, 112, 115, 0, 118, 112, 101, 114, 109, 116, 50, 113, 0, 118, 112,
  101, 114, 109, 116, 50, 119, 0, 118, 112, 101, 114, 109, 119, 0, 118, 112, 101, 120, 112, 97,
  110, 100, 100, 0, 118, 112, 101, 120, 112, 97, 110, 100, 113, 0, 118, 112, 101, 120, 116, 114,
  98, 0, 118, 112, 101, 120, 116, 114, 100, 0, 118, 112, 101, 120, 116, 114, 113, 0, 118, 112, 101,
  120, 116, 114, 119, 0, 118, 112, 103, 97, 116, 104, 101, 114, 100, 100, 0, 118, 112, 103, 97,
  116, 104, 101, 114, 100, 113, 0, 118, 112, 103, 97, 116, 104, 101, 114, 113, 100, 0, 118, 112,
  103, 97, 116, 104, 101, 114, 113, 113, 0, 118, 112, 104, 97, 100, 100, 98, 100, 0, 118, 112, 104,
  97, 100, 100, 98, 113, 0, 118, 112, 104, 97, 100, 100, 98, 119, 0, 118, 112, 104, 97, 100, 100,
  100, 0, 118, 112, 104, 97, 100, 100, 100, 113, 0, 118, 112, 104, 97, 100, 100, 115, 119, 0, 118,
  112, 104, 97, 100, 100, 117, 98, 100, 0, 118, 112, 104, 97, 100, 100, 117, 98, 113, 0, 118, 112,
  104, 97, 100, 100, 117, 98, 119, 0, 118, 112, 104, 97, 100, 100, 117, 100, 113, 0, 118, 112, 104,
  97, 100, 100, 117, 119, 100, 0, 118, 112, 104, 97, 100, 100, 117, 119, 113, 0, 118, 112, 104, 97,
  100, 100, 119, 0, 118, 112, 104, 97, 100, 100, 119, 100, 0, 118, 112, 104, 97, 100, 100, 119,
  113, 0, 118, 112, 104, 109, 105, 110, 112, 111, 115, 117, 119, 0, 118, 112, 104, 115, 117, 98,
  98, 119, 0, 118, 112, 104, 115, 117, 98, 100, 0, 118, 112, 104, 115, 117, 98, 100, 113, 0, 118,
  112, 104, 115, 117, 98, 115, 119, 0, 118, 112, 104, 115, 117, 98, 119, 0, 118, 112, 104, 115,
  117, 98, 119, 100, 0, 118, 112, 105, 110, 115, 114, 98, 0, 118, 112, 105, 110, 115, 114, 100, 0,
  118, 112, 105, 110, 115, 114, 113, 0, 118, 112, 105, 110, 115, 114, 119, 0, 118, 112, 108, 122,
  99, 110, 116, 100, 0, 118, 112, 108, 122, 99, 110, 116, 113, 0, 118, 112, 109, 97, 99, 115, 100,
  100, 0, 118, 112, 109, 97, 99, 115, 100, 113, 104, 0, 118, 112, 109, 97, 99, 115, 100, 113, 108,
  0, 118, 112, 109, 97, 99, 115, 115, 100, 100, 0, 118, 112, 109, 97, 99, 115, 115, 100, 113, 104,
  0, 118, 112, 109, 97, 99, 115, 115, 100, 113, 108, 0, 118, 112, 109, 97, 99, 115, 115, 119, 100,
  0, 118, 112, 109, 97, 99, 115, 115, 119, 119, 0, 118, 112, 109, 97, 99, 115, 119, 100, 0, 118,
  112, 109, 97, 99, 115, 119, 119, 0, 118, 112, 109, 97, 100, 99, 115, 115, 119, 100, 0, 118, 112,
  109, 97, 100, 99, 115, 119, 100, 0, 118, 112, 109, 97, 100, 100, 53, 50, 104, 117, 113, 0, 118,
  112, 109, 97, 100, 100, 53, 50, 108, 117, 113, 0, 118, 112, 109, 97, 100, 100, 117, 98, 115, 119,
  0, 118, 112, 109, 97, 100, 100, 119, 100, 0, 118, 112, 109, 97, 115, 107, 109, 111, 118, 100, 0,
  118, 112, 109, 97, 115, 107, 109, 111, 118, 113, 0, 118, 112, 109, 97, 120, 115, 98, 0, 118, 112,
  109, 97, 120, 115, 100, 0, 118, 112, 109, 97, 120, 115, 113, 0, 118, 112, 109, 97, 120, 115, 119,
  0, 118, 112, 109, 97, 120, 117, 98, 0, 118, 112, 109, 97, 120, 117, 100, 0, 118, 112, 109, 97,
  120, 117, 113, 0, 118, 112, 109, 97, 120, 117, 119, 0, 118, 112, 109, 105, 110, 115, 98, 0, 118,
  112, 109, 105, 110, 115, 100, 0, 118, 112, 109, 105, 110, 115, 113, 0, 118, 112, 109, 105, 110,
  115, 119, 0, 118, 112, 109, 105, 110, 117, 98, 0, 118, 112, 109, 105, 110, 117, 100, 0, 118, 112,
  109, 105, 110, 117, 113, 0, 118, 112, 109, 105, 110, 117, 119, 0, 118, 112, 109, 111, 118, 98,
  50, 109, 0, 118, 112, 109, 111, 118, 100, 50, 109, 0, 118, 112, 109, 111, 118, 100, 98, 0, 118,
  112, 109, 111, 118, 100, 119, 0, 118, 112, 109, 111, 118, 109, 50, 98, 0, 118, 112, 109, 111,
  118, 109, 50, 100, 0, 118, 112, 109, 111, 118, 109, 50, 113, 0, 118, 112, 109, 111, 118, 109, 50,
  119, 0, 118, 112, 109, 111, 118, 109, 115, 107, 98, 0, 118, 112, 109, 111, 118, 113, 50, 109, 0,
  118, 112, 109, 111, 118, 113, 98, 0, 118, 112, 109, 111, 118, 113, 100, 0, 118, 112, 109, 111,
  118, 113, 119, 0, 118, 112, 109, 111, 118, 115, 100, 98, 0, 118, 112, 109, 111, 118, 115, 100,
  119, 0, 118, 112, 109, 111, 118, 115, 113, 98, 0, 118, 112, 109, 111, 118, 115, 113, 100, 0, 118,
  112, 109, 111, 118, 115, 113, 119, 0, 118, 112, 109, 111, 118, 115, 119, 98, 0, 118, 112, 109,
  111, 118, 115, 120, 98, 100, 0, 118, 112, 109, 111, 118, 115, 120, 98, 113, 0, 118, 112, 109,
  111, 118, 115, 120, 98, 119, 0, 118, 112, 109, 111, 118, 115, 120, 100, 113, 0, 118, 112, 109,
  111, 118, 115, 120, 119, 100, 0, 118, 112, 109, 111, 118, 115, 120, 119, 113, 0, 118, 112, 109,
  111, 118, 117, 115, 100, 98, 0, 118, 112, 109, 111, 118, 117, 115, 100, 119, 0, 118, 112, 109,
  111, 118, 117, 115, 113, 98, 0, 118, 112, 109, 111, 118, 117, 115, 113, 100, 0, 118, 112, 109,
  111, 118, 117, 115, 113, 119, 0, 118, 112, 109, 111, 118, 117, 115, 119, 98, 0, 118, 112, 109,
  111, 118, 119, 50, 109, 0, 118, 112, 109, 111, 118, 119, 98, 0, 118, 112, 109, 111, 118, 122,
  120, 98, 100, 0, 118, 112, 109, 111, 118, 122, 120, 98, 113, 0, 118, 112, 109, 111, 118, 122,
  120, 98, 119, 0, 118, 112, 109, 111, 118, 122, 120, 100, 113, 0, 118, 112, 109, 111, 118, 122,
  120, 119, 100, 0, 118, 112, 109, 111, 118, 122, 120, 119, 113, 0, 118, 112, 109, 117, 108, 100,
  113, 0, 118, 112, 109, 117, 108, 104, 114, 115, 119, 0, 118, 112, 109, 117, 108, 104, 117, 119,
  0, 118, 112, 109, 117, 108, 104, 119, 0, 118, 112, 109, 117, 108, 108, 100, 0, 118, 112, 109,
  117, 108, 108, 113, 0, 118, 112, 109, 117, 108, 108, 119, 0, 118, 112, 109, 117, 108, 116, 105,
  115, 104, 105, 102, 116, 113, 98, 0, 118, 112, 109, 117, 108, 117, 100, 113, 0, 118, 112, 111,
  114, 0, 118, 112, 111, 114, 100, 0, 118, 112, 111, 114, 113, 0, 118, 112, 112, 101, 114, 109, 0,
  118, 112, 114, 111, 108, 100, 0, 118, 112, 114, 111, 108, 113, 0, 118, 112, 114, 111, 108, 118,
  100, 0, 118, 112, 114, 111, 108, 118, 113, 0, 118, 112, 114, 111, 114, 100, 0, 118, 112, 114,
  111, 114, 113, 0, 118, 112, 114, 111, 114, 118, 100, 0, 118, 112, 114, 111, 114, 118, 113, 0,
  118, 112, 114, 111, 116, 98, 0, 118, 112, 114, 111, 116, 100, 0, 118, 112, 114, 111, 116, 113, 0,
  118, 112, 114, 111, 116, 119, 0, 118, 112, 115, 97, 100, 98, 119, 0, 118, 112, 115, 99, 97, 116,
  116, 101, 114, 100, 100, 0, 118, 112, 115, 99, 97, 116, 116, 101, 114, 100, 113, 0, 118, 112,
  115, 99, 97, 116, 116, 101, 114, 113, 100, 0, 118, 112, 115, 99, 97, 116, 116, 101, 114, 113,
  113, 0, 118, 112, 115, 104, 97, 98, 0, 118, 112, 115, 104, 97, 100, 0, 118, 112, 115, 104, 97,
  113, 0, 118, 112, 115, 104, 97, 119, 0, 118, 112, 115, 104, 108, 98, 0, 118, 112, 115, 104, 108,
  100, 0, 118, 112, 115, 104, 108, 113, 0, 118, 112, 115, 104, 108, 119, 0, 118, 112, 115, 104,
  117, 102, 98, 0, 118, 112, 115, 104, 117, 102, 100, 0, 118, 112, 115, 104, 117, 102, 104, 119, 0,
  118, 112, 115, 104, 117, 102, 108, 119, 0, 118, 112, 115, 105, 103, 110, 98, 0, 118, 112, 115,
  105, 103, 110, 100, 0, 118, 112, 115, 105, 103, 110, 119, 0, 118, 112, 115, 108, 108, 100, 0,
  118, 112, 115, 108, 108, 100, 113, 0, 118, 112, 115, 108, 108, 113, 0, 118, 112, 115, 108, 108,
  118, 100, 0, 118, 112, 115, 108, 108, 118, 113, 0, 118, 112, 115, 108, 108, 118, 119, 0, 118,
  112, 115, 108, 108, 119, 0, 118, 112, 115, 114, 97, 100, 0, 118, 112, 115, 114, 97, 113, 0, 118,
  112, 115, 114, 97, 118, 100, 0, 118, 112, 115, 114, 97, 118, 113, 0, 118, 112, 115, 114, 97, 118,
  119, 0, 118, 112, 115, 114, 97, 119, 0, 118, 112, 115, 114, 108, 100, 0, 118, 112, 115, 114, 108,
  100, 113, 0, 118, 112, 115, 114, 108, 113, 0, 118, 112, 115, 114, 108, 118, 100, 0, 118, 112,
  115, 114, 108, 118, 113, 0, 118, 112, 115, 114, 108, 118, 119, 0, 118, 112, 115, 114, 108, 119,
  0, 118, 112, 115, 117, 98, 98, 0, 118, 112, 115, 117, 98, 100, 0, 118, 112, 115, 117, 98, 113, 0,
  118, 112, 115, 117, 98, 115, 98, 0, 118, 112, 115, 117, 98, 115, 119, 0, 118, 112, 115, 117, 98,
  117, 115, 98, 0, 118, 112, 115, 117, 98, 117, 115, 119, 0, 118, 112, 115, 117, 98, 119, 0, 118,
  112, 116, 101, 114, 110, 108, 111, 103, 100, 0, 118, 112, 116, 101, 114, 110, 108, 111, 103, 113,
  0, 118, 112, 116, 101, 115, 116, 0, 118, 112, 116, 101, 115, 116, 109, 98, 0, 118, 112, 116, 101,
  115, 116, 109, 100, 0, 118, 112, 116, 101, 115, 116, 109, 113, 0, 118, 112, 116, 101, 115, 116,
  109, 119, 0, 118, 112, 116, 101, 115, 116, 110, 109, 98, 0, 118, 112, 116, 101, 115, 116, 110,
  109, 100, 0, 118, 112, 116, 101, 115, 116, 110, 109, 113, 0, 118, 112, 116, 101, 115, 116, 110,
  109, 119, 0, 118, 112, 117, 110, 112, 99, 107, 104, 98, 119, 0, 118, 112, 117, 110, 112, 99, 107,
  104, 100, 113, 0, 118, 112, 117, 110, 112, 99, 107, 104, 113, 100, 113, 0, 118, 112, 117, 110,
  112, 99, 107, 104, 119, 100, 0, 118, 112, 117, 110, 112, 99, 107, 108, 98, 119, 0, 118, 112, 117,
  110, 112, 99, 107, 108, 100, 113, 0, 118, 112, 117, 110, 112, 99, 107, 108, 113, 100, 113, 0,
  118, 112, 117, 110, 112, 99, 107, 108, 119, 100, 0, 118, 112, 120, 111, 114, 0, 118, 112, 120,
  111, 114, 100, 0, 118, 112, 120, 111, 114, 113, 0, 118, 114, 97, 110, 103, 101, 112, 100, 0, 118,
  114, 97, 110, 103, 101, 112, 115, 0, 118, 114, 97, 110, 103, 101, 115, 100, 0, 118, 114, 97, 110,
  103, 101, 115, 115, 0, 118, 114, 99, 112, 49, 52, 112, 100, 0, 118, 114, 99, 112, 49, 52, 112,
  115, 0, 118, 114, 99, 112, 49, 52, 115, 100, 0, 118, 114, 99, 112, 49, 52, 115, 115, 0, 118, 114,
  99, 112, 50, 56, 112, 100, 0, 118, 114, 99, 112, 50, 56, 112, 115, 0, 118, 114, 99, 112, 50, 56,
  115, 100, 0, 118, 114, 99, 112, 50, 56, 115, 115, 0, 118, 114, 99, 112, 112, 115, 0, 118, 114,
  99, 112, 115, 115, 0, 118, 114, 101, 100, 117, 99, 101, 112, 100, 0, 118, 114, 101, 100, 117, 99,
  101, 112, 115, 0, 118, 114, 101, 100, 117, 99, 101, 115, 100, 0, 118, 114, 101, 100, 117, 99,
  101, 115, 115, 0, 118, 114, 110, 100, 115, 99, 97, 108, 101, 112, 100, 0, 118, 114, 110, 100,
  115, 99, 97, 108, 101, 112, 115, 0, 118, 114, 110, 100, 115, 99, 97, 108, 101, 115, 100, 0, 118,
  114, 110, 100, 115, 99, 97, 108, 101, 115, 115, 0, 118, 114, 111, 117, 110, 100, 112, 100, 0,
  118, 114, 111, 117, 110, 100, 112, 115, 0, 118, 114, 111, 117, 110, 100, 115, 100, 0, 118, 114,
  111, 117, 110, 100, 115, 115, 0, 118, 114, 115, 113, 114, 116, 49, 52, 112, 100, 0, 118, 114,
  115, 113, 114, 116, 49, 52, 112, 115, 0, 118, 114, 115, 113, 114, 116, 49, 52, 115, 100, 0, 118,
  114, 115, 113, 114, 116, 49, 52, 115, 115, 0, 118, 114, 115, 113, 114, 116, 50, 56, 112, 100, 0,
  118, 114, 115, 113, 114, 116, 50, 56, 112, 115, 0, 118, 114, 115, 113, 114, 116, 50, 56, 115,
  100, 0, 118, 114, 115, 113, 114, 116, 50, 56, 115, 115, 0, 118, 114, 115, 113, 114, 116, 112,
  115, 0, 118, 114, 115, 113, 114, 116, 115, 115, 0, 118, 115, 99, 97, 108, 101, 102, 112, 100, 0,
  118, 115, 99, 97, 108, 101, 102, 112, 115, 0, 118, 115, 99, 97, 108, 101, 102, 115, 100, 0, 118,
  115, 99, 97, 108, 101, 102, 115, 115, 0, 118, 115, 99, 97, 116, 116, 101, 114, 100, 112, 100, 0,
  118, 115, 99, 97, 116, 116, 101, 114, 100, 112, 115, 0, 118, 115, 99, 97, 116, 116, 101, 114,
  112, 102, 48, 100, 112, 100, 0, 118, 115, 99, 97, 116, 116, 101, 114, 112, 102, 48, 100, 112,
  115, 0, 118, 115, 99, 97, 116, 116, 101, 114, 112, 102, 48, 113, 112, 100, 0, 118, 115, 99, 97,
  116, 116, 101, 114, 112, 102, 48, 113, 112, 115, 0, 118, 115, 99, 97, 116, 116, 101, 114, 112,
  102, 49, 100, 112, 100, 0, 118, 115, 99, 97, 116, 116, 101, 114, 112, 102, 49, 100, 112, 115, 0,
  118, 115, 99, 97, 116, 116, 101, 114, 112, 102, 49, 113, 112, 100, 0, 118, 115, 99, 97, 116, 116,
  101, 114, 112, 102, 49, 113, 112, 115, 0, 118, 115, 99, 97, 116, 116, 101, 114, 113, 112, 100, 0,
  118, 115, 99, 97, 116, 116, 101, 114, 113, 112, 115, 0, 118, 115, 104, 117, 102, 102, 51, 50,
  120, 52, 0, 118, 115, 104, 117, 102, 102, 54, 52, 120, 50, 0, 118, 115, 104, 117, 102, 105, 51,
  50, 120, 52, 0, 118, 115, 104, 117, 102, 105, 54, 52, 120, 50, 0, 118, 115, 104, 117, 102, 112,
  100, 0, 118, 115, 104, 117, 102, 112, 115, 0, 118, 115, 113, 114, 116, 112, 100, 0, 118, 115,
  113, 114, 116, 112, 115, 0, 118, 115, 113, 114, 116, 115, 100, 0, 118, 115, 113, 114, 116, 115,
  115, 0, 118, 115, 116, 109, 120, 99, 115, 114, 0, 118, 115, 117, 98, 112, 100, 0, 118, 115, 117,
  98, 112, 115, 0, 118, 115, 117, 98, 115, 100, 0, 118, 115, 117, 98, 115, 115, 0, 118, 116, 101,
  115, 116, 112, 100, 0, 118, 116, 101, 115, 116, 112, 115, 0, 118, 117, 99, 111, 109, 105, 115,
  100, 0, 118, 117, 99, 111, 109, 105, 115, 115, 0, 118, 117, 110, 112, 99, 107, 104, 112, 100, 0,
  118, 117, 110, 112, 99, 107, 104, 112, 115, 0, 118, 117, 110, 112, 99, 107, 108, 112, 100, 0,
  118, 117, 110, 112, 99, 107, 108, 112, 115, 0, 118, 120, 111, 114, 112, 100, 0, 118, 120, 111,
  114, 112, 115, 0, 118, 122, 101, 114, 111, 97, 108, 108, 0, 118, 122, 101, 114, 111, 117, 112,
  112, 101, 114, 0, 119, 114, 102, 115, 98, 97, 115, 101, 0, 119, 114, 103, 115, 98, 97, 115, 101,
  0, 120, 97, 100, 100, 0, 120, 103, 101, 116, 98, 118, 0, 120, 114, 115, 116, 111, 114, 115, 0,
  120, 114, 115, 116, 111, 114, 115, 54, 52, 0, 120, 115, 97, 118, 101, 99, 0, 120, 115, 97, 118,
  101, 99, 54, 52, 0, 120, 115, 97, 118, 101, 111, 112, 116, 0, 120, 115, 97, 118, 101, 111, 112,
  116, 54, 52, 0, 120, 115, 97, 118, 101, 115, 0, 120, 115, 97, 118, 101, 115, 54, 52, 0, 120, 115,
  101, 116, 98, 118, 0
  >>

(***************************************************************************)
(* X86InstDB::instData (x86inst.cpp 186-1583), one row per instruction id: *)
(* <<encoding kind, _nameDataIndex, _commonDataIndex>>.  Row id+1 of the   *)
(* tuple is instData[id].                                                  *)
(***************************************************************************)
instData ==
  <<
  <<"None",0,0>>, <<"X86Arith",1,1>>, <<"X86Rm",5,2>>, <<"X86Arith",657,3>>, <<"ExtRm",4545,4>>,
  <<"ExtRm",4557,4>>, <<"ExtRm",4779,5>>, <<"ExtRm",4789,6>>, <<"ExtRm",4284,4>>,
  <<"ExtRm",4296,4>>, <<"X86Rm",10,7>>, <<"ExtRm",2790,4>>, <<"ExtRm",2798,4>>, <<"ExtRm",2810,4>>,
  <<"ExtRm",2818,4>>, <<"ExtRm",2830,8>>, <<"ExtRmi",2838,9>>, <<"X86Arith",2034,3>>,
  <<"VexRvm_Wx",6055,10>>, <<"ExtRm",2871,4>>, <<"ExtRm",2879,4>>, <<"ExtRm",3798,4>>,
  <<"ExtRm",3808,4>>, <<"VexRmv_Wx",15,11>>, <<"VexVm_Wx",21,12>>, <<"VexVm_Wx",29,12>>,
  <<"VexVm_Wx",34,12>>, <<"VexVm_Wx",40,12>>, <<"VexVm_Wx",47,12>>, <<"ExtRmi",2957,13>>,
  <<"ExtRmi",2966,13>>, <<"ExtRmXMM0",2975,14>>, <<"ExtRmXMM0",2985,14>>, <<"VexVm_Wx",52,12>>,
  <<"VexVm_Wx",60,15>>, <<"VexVm_Wx",65,12>>, <<"VexVm_Wx",71,15>>, <<"VexVm_Wx",78,15>>,
  <<"X86Rm",83,16>>, <<"X86Rm",87,16>>, <<"X86Bswap",91,17>>, <<"X86Bt",97,18>>,
  <<"X86Bt",100,19>>, <<"X86Bt",104,20>>, <<"X86Bt",108,21>>, <<"VexRmv_Wx",112,11>>,
  <<"X86Call",117,22>>, <<"X86OpAx",122,23>>, <<"X86OpDxAx",126,24>>, <<"X86OpAx",130,25>>,
  <<"X86Op",135,26>>, <<"X86Op",140,27>>, <<"X86Op",144,28>>, <<"X86M_Only",148,29>>,
  <<"X86M_Only",156,29>>, <<"X86M_Only",167,29>>, <<"X86Op",172,30>>, <<"X86Op",179,31>>,
  <<"X86Rm",183,32>>, <<"X86Rm",189,33>>, <<"X86Rm",514,33>>, <<"X86Rm",521,32>>,
  <<"X86Rm",196,33>>, <<"X86Rm",529,34>>, <<"X86Rm",202,35>>, <<"X86Rm",208,36>>,
  <<"X86Rm",215,36>>, <<"X86Rm",221,35>>, <<"X86Rm",228,32>>, <<"X86Rm",235,33>>,
  <<"X86Rm",536,33>>, <<"X86Rm",544,32>>, <<"X86Rm",243,33>>, <<"X86Rm",553,34>>,
  <<"X86Rm",250,35>>, <<"X86Rm",257,36>>, <<"X86Rm",265,36>>, <<"X86Rm",272,35>>,
  <<"X86Rm",280,37>>, <<"X86Rm",287,38>>, <<"X86Rm",294,39>>, <<"X86Rm",301,34>>,
  <<"X86Rm",308,37>>, <<"X86Rm",314,38>>, <<"X86Rm",320,38>>, <<"X86Rm",327,38>>,
  <<"X86Rm",334,39>>, <<"X86Rm",340,34>>, <<"X86Arith",346,40>>, <<"ExtRmi",3211,13>>,
  <<"ExtRmi",3218,13>>, <<"X86Op",2292,41>>, <<"X86Op",2305,41>>, <<"X86Op",2318,41>>,
  <<"X86Op",2331,41>>, <<"ExtRmi",3225,42>>, <<"ExtRmi",3232,43>>, <<"X86Cmpxchg",350,44>>,
  <<"X86M_Only",358,45>>, <<"X86M_Only",369,46>>, <<"ExtRm",9258,47>>, <<"ExtRm",9267,48>>,
  <<"X86Op",379,49>>, <<"X86OpDxAx",385,50>>, <<"X86Crc",389,51>>, <<"ExtRm",3279,52>>,
  <<"ExtRm",3289,53>>, <<"ExtRm",3299,53>>, <<"ExtRm",395,54>>, <<"ExtRm",3309,53>>,
  <<"ExtRm",404,55>>, <<"ExtRm",413,56>>, <<"ExtRm",3361,53>>, <<"ExtRm",3371,52>>,
  <<"ExtRm",422,57>>, <<"ExtRm_Wx",3443,58>>, <<"ExtRm",3453,59>>, <<"ExtRm_Wx",3474,60>>,
  <<"ExtRm_Wx",3484,61>>, <<"ExtRm",3494,62>>, <<"ExtRm_Wx",3504,63>>, <<"ExtRm",3525,53>>,
  <<"ExtRm",431,54>>, <<"ExtRm",3571,53>>, <<"ExtRm",441,57>>, <<"ExtRm_Wx",3617,58>>,
  <<"ExtRm_Wx",3640,63>>, <<"X86OpDxAx",451,64>>, <<"X86OpAx",455,65>>, <<"X86Op",460,66>>,
  <<"X86Op",464,66>>, <<"X86IncDec",2793,67>>, <<"X86M_Bx_MulDiv",676,68>>, <<"ExtRm",3739,4>>,
  <<"ExtRm",3746,4>>, <<"ExtRm",3753,5>>, <<"ExtRm",3760,6>>, <<"ExtRmi",3767,13>>,
  <<"ExtRmi",3773,13>>, <<"X86Op",644,69>>, <<"X86Enter",468,70>>, <<"ExtExtract",3953,71>>,
  <<"ExtExtrq",6769,72>>, <<"FpuOp",474,73>>, <<"FpuOp",480,73>>, <<"FpuArith",1756,74>>,
  <<"FpuRDef",485,75>>, <<"X86M_Only",491,76>>, <<"X86M_Only",496,76>>, <<"FpuOp",502,73>>,
  <<"FpuOp",507,73>>, <<"FpuR",513,77>>, <<"FpuR",520,78>>, <<"FpuR",528,79>>, <<"FpuR",535,77>>,
  <<"FpuR",543,78>>, <<"FpuR",552,79>>, <<"FpuR",560,80>>, <<"FpuR",568,80>>, <<"FpuCom",575,81>>,
  <<"FpuR",580,82>>, <<"FpuR",586,82>>, <<"FpuCom",593,81>>, <<"FpuOp",599,73>>,
  <<"FpuOp",606,73>>, <<"FpuOp",611,73>>, <<"FpuArith",619,74>>, <<"FpuRDef",624,75>>,
  <<"FpuArith",630,74>>, <<"FpuRDef",636,75>>, <<"X86Op",643,73>>, <<"FpuR",649,83>>,
  <<"FpuM",655,84>>, <<"FpuM",661,84>>, <<"FpuM",667,84>>, <<"FpuM",674,84>>, <<"FpuM",680,84>>,
  <<"FpuM",687,85>>, <<"FpuM",692,84>>, <<"FpuOp",698,73>>, <<"FpuOp",706,73>>, <<"FpuM",712,84>>,
  <<"FpuM",717,86>>, <<"FpuM",723,87>>, <<"FpuM",730,84>>, <<"FpuM",736,84>>,
  <<"FpuFldFst",743,88>>, <<"FpuOp",747,73>>, <<"X86M_Only",752,89>>, <<"X86M_Only",758,90>>,
  <<"FpuOp",765,73>>, <<"FpuOp",772,73>>, <<"FpuOp",779,73>>, <<"FpuOp",786,73>>,
  <<"FpuOp",793,73>>, <<"FpuOp",799,73>>, <<"FpuArith",1798,74>>, <<"FpuRDef",804,75>>,
  <<"FpuOp",810,73>>, <<"FpuOp",817,73>>, <<"FpuOp",824,73>>, <<"X86M_Only",829,90>>,
  <<"X86M_Only",836,89>>, <<"X86M_Only",843,90>>, <<"FpuStsw",851,91>>, <<"FpuOp",858,73>>,
  <<"FpuOp",865,73>>, <<"FpuOp",871,73>>, <<"FpuOp",878,73>>, <<"FpuOp",884,73>>,
  <<"X86M_Only",892,90>>, <<"X86M_Only",899,90>>, <<"FpuOp",905,73>>, <<"FpuOp",912,73>>,
  <<"FpuOp",917,73>>, <<"FpuOp",925,73>>, <<"FpuFldFst",931,92>>, <<"X86M_Only",935,89>>,
  <<"X86M_Only",941,90>>, <<"FpuFldFst",948,93>>, <<"FpuStsw",953,94>>, <<"FpuArith",1876,74>>,
  <<"FpuRDef",959,75>>, <<"FpuArith",1882,74>>, <<"FpuRDef",965,75>>, <<"FpuOp",972,73>>,
  <<"FpuRDef",977,75>>, <<"FpuR",983,82>>, <<"FpuR",990,82>>, <<"FpuRDef",998,75>>,
  <<"FpuOp",1005,73>>, <<"X86Op",1013,95>>, <<"FpuOp",1019,73>>, <<"FpuR",1024,75>>,
  <<"X86M_Only",1029,90>>, <<"X86M_Only",1037,96>>, <<"X86M_Only",1047,90>>,
  <<"X86M_Only",1054,96>>, <<"FpuOp",1063,73>>, <<"FpuOp",1071,73>>, <<"FpuOp",1077,73>>,
  <<"ExtRm",5308,4>>, <<"ExtRm",5316,4>>, <<"ExtRm",5324,4>>, <<"ExtRm",5332,4>>,
  <<"X86M_Bx_MulDiv",675,97>>, <<"X86Imul",693,98>>, <<"X86IncDec",1085,99>>, <<"ExtRmi",5468,43>>,
  <<"ExtInsertq",1089,100>>, <<"X86Int",888,101>>, <<"X86Op",1097,102>>, <<"X86Op",1102,102>>,
  <<"X86Jcc",1107,103>>, <<"X86Jcc",1110,104>>, <<"X86Jcc",1114,104>>, <<"X86Jcc",1117,103>>,
  <<"X86Jcc",1121,105>>, <<"X86Jcc",1124,106>>, <<"X86Jcc",1133,107>>, <<"X86Jcc",1136,108>>,
  <<"X86Jcc",1140,108>>, <<"X86Jcc",1143,107>>, <<"X86Jcc",1151,103>>, <<"X86Jcc",1155,104>>,
  <<"X86Jcc",1160,104>>, <<"X86Jcc",1164,103>>, <<"X86Jcc",1169,105>>, <<"X86Jcc",1173,106>>,
  <<"X86Jcc",1177,107>>, <<"X86Jcc",1181,108>>, <<"X86Jcc",1186,108>>, <<"X86Jcc",1190,107>>,
  <<"X86Jcc",1195,109>>, <<"X86Jcc",1199,110>>, <<"X86Jcc",1203,111>>, <<"X86Jcc",1207,106>>,
  <<"X86Jcc",1211,109>>, <<"X86Jcc",1214,110>>, <<"X86Jcc",1217,110>>, <<"X86Jcc",1221,110>>,
  <<"X86Jcc",1225,111>>, <<"X86Jcc",1228,106>>, <<"X86Jecxz",1127,112>>, <<"X86Jmp",1147,113>>,
  <<"VexRvm",1231,114>>, <<"VexRvm",1237,114>>, <<"VexRvm",1243,114>>, <<"VexRvm",1249,114>>,
  <<"VexRvm",1255,114>>, <<"VexRvm",1261,114>>, <<"VexRvm",1267,114>>, <<"VexRvm",1274,114>>,
  <<"VexRvm",1281,114>>, <<"VexRvm",1288,114>>, <<"VexRvm",1295,114>>, <<"VexRvm",1301,114>>,
  <<"VexKmov",1307,115>>, <<"VexKmov",7249,116>>, <<"VexKmov",7260,117>>, <<"VexKmov",1313,118>>,
  <<"VexRm",1319,119>>, <<"VexRm",1325,119>>, <<"VexRm",1331,119>>, <<"VexRm",1337,119>>,
  <<"VexRvm",1343,114>>, <<"VexRvm",1348,114>>, <<"VexRvm",1353,114>>, <<"VexRm",1358,120>>,
  <<"VexRm",1367,120>>, <<"VexRm",1376,120>>, <<"VexRm",1385,120>>, <<"VexRvm",1394,114>>,
  <<"VexRmi",1399,121>>, <<"VexRmi",1408,121>>, <<"VexRmi",1417,121>>, <<"VexRmi",1426,121>>,
  <<"VexRmi",1435,121>>, <<"VexRmi",1444,121>>, <<"VexRmi",1453,121>>, <<"VexRmi",1462,121>>,
  <<"VexRm",1471,120>>, <<"VexRm",1478,120>>, <<"VexRm",1485,120>>, <<"VexRm",1492,120>>,
  <<"VexRvm",1499,114>>, <<"VexRvm",1508,114>>, <<"VexRvm",1517,114>>, <<"VexRvm",1526,114>>,
  <<"VexRvm",1533,114>>, <<"VexRvm",1540,114>>, <<"VexRvm",1547,114>>, <<"VexRvm",1554,114>>,
  <<"VexRvm",1560,114>>, <<"VexRvm",1566,114>>, <<"VexRvm",1572,114>>, <<"X86Op",1578,122>>,
  <<"ExtRm",5478,123>>, <<"X86M_Only",5485,124>>, <<"X86Lea",1583,125>>, <<"X86Op",1587,126>>,
  <<"X86Fence",1593,69>>, <<"X86Op",2062,127>>, <<"X86Op",2073,128>>, <<"X86Op",2084,129>>,
  <<"X86Op",2095,130>>, <<"X86Rm",1600,131>>, <<"ExtRmZDI",5494,132>>, <<"ExtRmZDI",7257,133>>,
  <<"ExtRm",5528,4>>, <<"ExtRm",5535,4>>, <<"ExtRm",7276,5>>, <<"ExtRm",5549,6>>,
  <<"X86Fence",1606,134>>, <<"ExtRm",5556,4>>, <<"ExtRm",5563,4>>, <<"ExtRm",7340,5>>,
  <<"ExtRm",5577,6>>, <<"X86Op",1613,135>>, <<"X86Mov",6223,136>>, <<"ExtMov",5584,137>>,
  <<"ExtMov",5592,138>>, <<"ExtMovbe",522,139>>, <<"ExtMovd",7250,140>>, <<"ExtMov",5606,52>>,
  <<"ExtMov",1621,141>>, <<"ExtMov",5615,142>>, <<"ExtMov",5498,143>>, <<"ExtMov",5690,144>>,
  <<"ExtMov",5699,145>>, <<"ExtMov",5707,146>>, <<"ExtMov",5715,147>>, <<"ExtMov",5724,148>>,
  <<"ExtMov",5732,149>>, <<"ExtMov",5740,150>>, <<"ExtMov",5750,150>>, <<"ExtMov",5760,151>>,
  <<"ExtMov",5769,123>>, <<"ExtMovnti",1629,152>>, <<"ExtMov",5779,153>>, <<"ExtMov",5788,154>>,
  <<"ExtMov",1636,155>>, <<"ExtMov",1643,156>>, <<"ExtMov",1651,157>>, <<"ExtMovq",7261,158>>,
  <<"ExtRm",1659,159>>, <<"X86Op",2106,160>>, <<"X86Op",2117,160>>, <<"X86Op",2128,160>>,
  <<"X86Op",2139,160>>, <<"ExtMov",5803,161>>, <<"ExtRm",5810,53>>, <<"ExtRm",5820,53>>,
  <<"ExtMov",5830,162>>, <<"X86MovsxMovzx",1667,163>>, <<"X86Rm",1673,164>>, <<"ExtMov",5837,165>>,
  <<"ExtMov",5845,166>>, <<"X86MovsxMovzx",1680,163>>, <<"ExtRmi",5853,13>>,
  <<"X86M_Bx_MulDiv",694,167>>, <<"ExtRm",5862,4>>, <<"ExtRm",5869,4>>, <<"ExtRm",5876,5>>,
  <<"ExtRm",5883,6>>, <<"VexRvmZDX_Wx",1686,168>>, <<"X86Op",1691,135>>, <<"X86M_Bx",1697,169>>,
  <<"X86Op",825,170>>, <<"X86M_Bx",1701,171>>, <<"X86Arith",1034,3>>, <<"ExtRm",9316,4>>,
  <<"ExtRm",9323,4>>, <<"ExtRm_P",5902,172>>, <<"ExtRm_P",5909,172>>, <<"ExtRm_P",5923,172>>,
  <<"ExtRm_P",5930,172>>, <<"ExtRm_P",5940,172>>, <<"ExtRm",5950,4>>, <<"ExtRm_P",5960,172>>,
  <<"ExtRm_P",5970,172>>, <<"ExtRm_P",5977,172>>, <<"ExtRm_P",5984,172>>, <<"ExtRm_P",5991,172>>,
  <<"ExtRm_P",5999,172>>, <<"ExtRm_P",6007,172>>, <<"ExtRm_P",6016,172>>, <<"ExtRm_P",6025,172>>,
  <<"ExtRmi_P",6032,173>>, <<"ExtRm_P",6041,172>>, <<"ExtRm_P",6054,172>>, <<"X86Op",1705,174>>,
  <<"ExtRm_P",6084,172>>, <<"Ext3dNow",1711,175>>, <<"ExtRm_P",6091,172>>, <<"ExtRmXMM0",6107,14>>,
  <<"ExtRmi",6117,13>>, <<"ExtRmi",6210,13>>, <<"ExtRm_P",6242,172>>, <<"ExtRm_P",6251,172>>,
  <<"ExtRm",6260,4>>, <<"ExtRm_P",6269,172>>, <<"ExtRmi",6278,176>>, <<"ExtRmi",6289,177>>,
  <<"ExtRm_P",6300,172>>, <<"ExtRm_P",6309,172>>, <<"ExtRm",6318,4>>, <<"ExtRm_P",6327,172>>,
  <<"ExtRmi",6336,178>>, <<"ExtRmi",6347,179>>, <<"X86Op_O",1719,69>>, <<"VexRvm_Wx",1727,180>>,
  <<"VexRvm_Wx",1732,180>>, <<"ExtExtract",6752,181>>, <<"ExtExtract",6760,71>>,
  <<"ExtExtract",6768,182>>, <<"ExtPextrw",6776,183>>, <<"Ext3dNow",1737,184>>,
  <<"Ext3dNow",1743,184>>, <<"Ext3dNow",1749,175>>, <<"Ext3dNow",1755,175>>,
  <<"Ext3dNow",1761,175>>, <<"Ext3dNow",1769,175>>, <<"Ext3dNow",1777,175>>,
  <<"Ext3dNow",1785,175>>, <<"Ext3dNow",1791,175>>, <<"Ext3dNow",1797,175>>,
  <<"Ext3dNow",1803,175>>, <<"Ext3dNow",1810,175>>, <<"Ext3dNow",1818,184>>,
  <<"Ext3dNow",1824,175>>, <<"Ext3dNow",1833,175>>, <<"Ext3dNow",1842,175>>,
  <<"Ext3dNow",1849,185>>, <<"Ext3dNow",1858,185>>, <<"Ext3dNow",1866,175>>,
  <<"Ext3dNow",1875,175>>, <<"Ext3dNow",1881,175>>, <<"ExtRm_P",6855,172>>, <<"ExtRm_P",6872,172>>,
  <<"ExtRm_P",6941,172>>, <<"ExtRm",6967,4>>, <<"ExtRm_P",6988,172>>, <<"ExtRm_P",7005,172>>,
  <<"ExtRm_P",7014,172>>, <<"Ext3dNow",1888,184>>, <<"Ext3dNow",1894,184>>, <<"ExtRmi",7031,186>>,
  <<"ExtRmi",7039,187>>, <<"ExtRmi",7047,188>>, <<"ExtRmi_P",7055,189>>, <<"ExtRm_P",7225,172>>,
  <<"ExtRm_P",7236,172>>, <<"ExtRm",7267,4>>, <<"ExtRm",7275,4>>, <<"ExtRm_P",7291,172>>,
  <<"ExtRm_P",7299,172>>, <<"ExtRm",7307,4>>, <<"ExtRm",7323,4>>, <<"ExtRm",7331,4>>,
  <<"ExtRm",7339,4>>, <<"ExtRm_P",7355,172>>, <<"ExtRm_P",7363,172>>, <<"ExtRm",7371,4>>,
  <<"ExtRm",7387,4>>, <<"ExtRm_P",7465,190>>, <<"ExtRm",7562,191>>, <<"ExtRm",7572,192>>,
  <<"ExtRm",7582,52>>, <<"ExtRm",7592,52>>, <<"ExtRm",7602,52>>, <<"ExtRm",7612,191>>,
  <<"ExtRm",7699,191>>, <<"ExtRm",7709,192>>, <<"ExtRm",7719,52>>, <<"ExtRm",7729,52>>,
  <<"ExtRm",7739,52>>, <<"ExtRm",7749,191>>, <<"ExtRm",7759,4>>, <<"ExtRm_P",7767,172>>,
  <<"Ext3dNow",1900,175>>, <<"ExtRm_P",7777,172>>, <<"ExtRm_P",7786,172>>, <<"ExtRm",7794,4>>,
  <<"ExtRm_P",7810,172>>, <<"ExtRm_P",7833,172>>, <<"X86Pop",1908,193>>, <<"X86Op",1912,194>>,
  <<"X86Rm",1917,195>>, <<"X86Op",1924,196>>, <<"ExtRm_P",7842,172>>, <<"X86Prefetch",1929,197>>,
  <<"X86M_Only",1938,29>>, <<"X86M_Only",1952,198>>, <<"X86M_Only",1962,198>>,
  <<"ExtRm_P",3731,172>>, <<"ExtRm_P",8066,199>>, <<"ExtRmi",8074,200>>, <<"ExtRmi",8082,200>>,
  <<"ExtRmi",8091,200>>, <<"ExtRmi_P",1974,201>>, <<"ExtRm_P",8100,172>>, <<"ExtRm_P",8108,172>>,
  <<"ExtRm_P",8116,172>>, <<"ExtRmRi_P",8124,202>>, <<"ExtRmRi",8131,203>>,
  <<"ExtRmRi_P",8139,204>>, <<"ExtRmRi_P",8170,205>>, <<"ExtRmRi_P",8177,206>>,
  <<"ExtRmRi_P",8215,207>>, <<"ExtRmRi_P",8222,208>>, <<"ExtRmRi",8229,209>>,
  <<"ExtRmRi_P",8237,210>>, <<"ExtRmRi_P",8268,211>>, <<"ExtRm_P",8275,172>>,
  <<"ExtRm_P",8282,172>>, <<"ExtRm_P",8289,172>>, <<"ExtRm_P",8296,172>>, <<"ExtRm_P",8304,172>>,
  <<"ExtRm_P",8312,172>>, <<"ExtRm_P",8321,172>>, <<"ExtRm_P",8330,172>>, <<"Ext3dNow",1981,184>>,
  <<"ExtRm",8359,212>>, <<"ExtRm_P",8442,172>>, <<"ExtRm_P",8453,172>>, <<"ExtRm",8464,4>>,
  <<"ExtRm_P",8476,172>>, <<"ExtRm_P",8487,172>>, <<"ExtRm_P",8498,172>>, <<"ExtRm",8509,4>>,
  <<"ExtRm_P",8521,172>>, <<"X86Push",1988,213>>, <<"X86Op",1993,194>>, <<"X86Op",1999,214>>,
  <<"ExtRm_P",8532,172>>, <<"X86Rot",2005,215>>, <<"ExtRm",8660,53>>, <<"ExtRm",8667,216>>,
  <<"X86Rot",2009,215>>, <<"X86M",2013,217>>, <<"X86M",2022,217>>, <<"X86M",2031,218>>,
  <<"X86M",2038,218>>, <<"X86Op",2045,219>>, <<"X86Op",2051,220>>, <<"X86Rep",2058,221>>,
  <<"X86Rep",2069,221>>, <<"X86Rep",2080,221>>, <<"X86Rep",2091,221>>, <<"X86Rep",2102,221>>,
  <<"X86Rep",2113,221>>, <<"X86Rep",2124,221>>, <<"X86Rep",2135,221>>, <<"X86Rep",2146,221>>,
  <<"X86Rep",2157,221>>, <<"X86Rep",2168,221>>, <<"X86Rep",2179,221>>, <<"X86Rep",2190,41>>,
  <<"X86Rep",2202,41>>, <<"X86Rep",2214,41>>, <<"X86Rep",2226,41>>, <<"X86Rep",2238,41>>,
  <<"X86Rep",2250,41>>, <<"X86Rep",2262,41>>, <<"X86Rep",2274,41>>, <<"X86Rep",2286,41>>,
  <<"X86Rep",2299,41>>, <<"X86Rep",2312,41>>, <<"X86Rep",2325,41>>, <<"X86Rep",2338,41>>,
  <<"X86Rep",2351,41>>, <<"X86Rep",2364,41>>, <<"X86Rep",2377,41>>, <<"X86Ret",2390,222>>,
  <<"X86Rot",2394,223>>, <<"X86Rot",2398,223>>, <<"VexRmi_Wx",2402,224>>, <<"ExtRmi",8762,200>>,
  <<"ExtRmi",8771,200>>, <<"ExtRmi",8780,225>>, <<"ExtRmi",8789,226>>, <<"ExtRm",8886,53>>,
  <<"ExtRm",8895,216>>, <<"X86Op",2407,227>>, <<"X86Rot",2412,228>>, <<"X86Rot",2416,228>>,
  <<"VexRmv_Wx",2420,229>>, <<"X86Arith",2425,1>>, <<"X86Op",2344,41>>, <<"X86Op",2357,41>>,
  <<"X86Op",2370,41>>, <<"X86Op",2383,41>>, <<"X86Set",2429,230>>, <<"X86Set",2434,231>>,
  <<"X86Set",2440,231>>, <<"X86Set",2445,230>>, <<"X86Set",2451,231>>, <<"X86Set",2456,232>>,
  <<"X86Set",2461,233>>, <<"X86Set",2466,234>>, <<"X86Set",2472,234>>, <<"X86Set",2477,233>>,
  <<"X86Set",2483,230>>, <<"X86Set",2489,231>>, <<"X86Set",2496,231>>, <<"X86Set",2502,230>>,
  <<"X86Set",2509,231>>, <<"X86Set",2515,232>>, <<"X86Set",2521,233>>, <<"X86Set",2527,234>>,
  <<"X86Set",2534,234>>, <<"X86Set",2540,233>>, <<"X86Set",2547,235>>, <<"X86Set",2553,236>>,
  <<"X86Set",2559,237>>, <<"X86Set",2565,232>>, <<"X86Set",2571,235>>, <<"X86Set",2576,236>>,
  <<"X86Set",2581,236>>, <<"X86Set",2587,236>>, <<"X86Set",2593,237>>, <<"X86Set",2598,232>>,
  <<"X86Fence",2603,69>>, <<"ExtRm",2610,4>>, <<"ExtRm",2619,4>>, <<"ExtRm",2628,4>>,
  <<"ExtRmi",2638,13>>, <<"ExtRm",2648,4>>, <<"ExtRm",2659,4>>, <<"ExtRmXMM0",2670,14>>,
  <<"X86Rot",2682,228>>, <<"X86ShldShrd",8046,238>>, <<"VexRmv_Wx",2686,229>>,
  <<"X86Rot",2691,228>>, <<"X86ShldShrd",2695,238>>, <<"VexRmv_Wx",2700,229>>,
  <<"ExtRmi",9156,13>>, <<"ExtRmi",9164,13>>, <<"ExtRm",9172,53>>, <<"ExtRm",8887,53>>,
  <<"ExtRm",9188,239>>, <<"ExtRm",8896,216>>, <<"X86Op",2705,26>>, <<"X86Op",2710,240>>,
  <<"X86Op",6147,241>>, <<"X86Op",2714,242>>, <<"X86M_Only",9204,243>>, <<"X86Op",2150,221>>,
  <<"X86Op",2161,221>>, <<"X86Op",2172,221>>, <<"X86Op",2183,221>>, <<"X86Arith",732,3>>,
  <<"ExtRm",4287,4>>, <<"ExtRm",4299,4>>, <<"ExtRm",4975,5>>, <<"ExtRm",4985,6>>,
  <<"VexVm_Wx",2718,12>>, <<"X86Test",8360,244>>, <<"X86Rm",2725,195>>, <<"VexVm_Wx",2731,12>>,
  <<"ExtRm",9257,47>>, <<"ExtRm",9266,48>>, <<"X86Op",2737,245>>, <<"ExtRm",9275,4>>,
  <<"ExtRm",9285,4>>, <<"ExtRm",9295,4>>, <<"ExtRm",9305,4>>, <<"VexRvm_Lx",2741,246>>,
  <<"VexRvm_Lx",2748,247>>, <<"VexRvm",2755,248>>, <<"VexRvm",2762,249>>, <<"VexRvm_Lx",2769,250>>,
  <<"VexRvm_Lx",2779,250>>, <<"VexRvm",2789,251>>, <<"VexRvm",2797,251>>, <<"VexRvm",2809,251>>,
  <<"VexRvm",2817,251>>, <<"VexRm",2829,252>>, <<"VexRmi",2837,253>>, <<"VexRvmi_Lx",2854,254>>,
  <<"VexRvmi_Lx",2862,255>>, <<"VexRvm_Lx",2870,256>>, <<"VexRvm_Lx",2878,257>>,
  <<"VexRvm_Lx",2886,256>>, <<"VexRvm_Lx",2893,257>>, <<"VexRvm_Lx",2900,258>>,
  <<"VexRvm_Lx",2909,259>>, <<"VexRvm_Lx",2918,260>>, <<"VexRvm_Lx",2928,259>>,
  <<"VexRvm_Lx",2938,260>>, <<"VexRvm_Lx",2947,258>>, <<"VexRvmi_Lx",2956,261>>,
  <<"VexRvmi_Lx",2965,261>>, <<"VexRvmr_Lx",2974,262>>, <<"VexRvmr_Lx",2984,262>>,
  <<"VexRm",2994,263>>, <<"VexRm_Lx",3009,264>>, <<"VexRm_Lx",3025,265>>, <<"VexRm",3041,266>>,
  <<"VexRm_Lx",3057,267>>, <<"VexRm",3073,268>>, <<"VexRm",3089,263>>, <<"VexRm_Lx",3104,269>>,
  <<"VexRm_Lx",3120,270>>, <<"VexRm",3136,271>>, <<"VexRm_Lx",3152,264>>, <<"VexRm",3168,272>>,
  <<"VexRm_Lx",3184,273>>, <<"VexRm_Lx",3197,274>>, <<"VexRvmi_Lx",3210,275>>,
  <<"VexRvmi_Lx",3217,276>>, <<"VexRvmi",3224,277>>, <<"VexRvmi",3231,278>>, <<"VexRm",3238,279>>,
  <<"VexRm",3246,280>>, <<"VexMr_Lx",3254,281>>, <<"VexMr_Lx",3266,281>>, <<"VexRm_Lx",3278,282>>,
  <<"VexRm_Lx",3288,283>>, <<"VexRm_Lx",3298,284>>, <<"VexRm_Lx",3308,285>>,
  <<"VexRm_Lx",3318,286>>, <<"VexRm_Lx",3328,287>>, <<"VexRm_Lx",3339,286>>,
  <<"VexRm_Lx",3350,288>>, <<"VexRm_Lx",3360,283>>, <<"VexRm_Lx",3370,289>>,
  <<"VexMri_Lx",3380,290>>, <<"VexRm_Lx",3390,291>>, <<"VexRm_Lx",3400,292>>,
  <<"VexRm_Lx",3411,291>>, <<"VexRm_Lx",3422,286>>, <<"VexRm_Lx",3432,293>>, <<"VexRm",3442,294>>,
  <<"VexRvm",3452,248>>, <<"VexRm",3462,295>>, <<"VexRvm",3473,296>>, <<"VexRvm",3483,296>>,
  <<"VexRvm",3493,297>>, <<"VexRm",3503,298>>, <<"VexRm",3513,299>>, <<"VexRm_Lx",3524,300>>,
  <<"VexRm_Lx",3535,301>>, <<"VexRm_Lx",3546,302>>, <<"VexRm_Lx",3558,303>>,
  <<"VexRm_Lx",3570,304>>, <<"VexRm_Lx",3581,305>>, <<"VexRm_Lx",3592,306>>,
  <<"VexRm_Lx",3604,305>>, <<"VexRm",3616,307>>, <<"VexRm",3627,308>>, <<"VexRm",3639,309>>,
  <<"VexRm",3650,310>>, <<"VexRm_Lx",3662,311>>, <<"VexRm_Lx",3673,292>>, <<"VexRm_Lx",3684,286>>,
  <<"VexRm_Lx",3695,293>>, <<"VexRvm",3706,312>>, <<"VexRvm",3717,312>>, <<"VexRvmi_Lx",3728,313>>,
  <<"VexRvm_Lx",3738,246>>, <<"VexRvm_Lx",3745,247>>, <<"VexRvm",3752,248>>, <<"VexRvm",3759,249>>,
  <<"VexRvmi_Lx",3766,261>>, <<"VexRvmi_Lx",3772,261>>, <<"VexRm",3778,314>>, <<"VexRm",3786,315>>,
  <<"VexRm_Lx",3794,316>>, <<"VexRm_Lx",3804,316>>, <<"VexMri",3814,317>>,
  <<"VexMri_Lx",3827,318>>, <<"VexMri",3841,319>>, <<"VexMri_Lx",3855,320>>, <<"VexMri",3869,321>>,
  <<"VexMri",3883,317>>, <<"VexMri_Lx",3896,318>>, <<"VexMri",3910,319>>, <<"VexMri_Lx",3924,320>>,
  <<"VexMri",3938,321>>, <<"VexMri",3952,322>>, <<"VexRvmi_Lx",3963,323>>,
  <<"VexRvmi_Lx",3975,324>>, <<"VexRvmi",3987,325>>, <<"VexRvmi",3999,326>>,
  <<"VexRvm_Lx",4011,327>>, <<"VexRvm_Lx",4023,328>>, <<"VexRvm",4035,329>>, <<"VexRvm",4047,330>>,
  <<"VexRvm_Lx",4059,327>>, <<"VexRvm_Lx",4071,328>>, <<"VexRvm",4083,329>>, <<"VexRvm",4095,330>>,
  <<"VexRvm_Lx",4107,327>>, <<"VexRvm_Lx",4119,328>>, <<"VexRvm",4131,329>>, <<"VexRvm",4143,330>>,
  <<"Fma4_Lx",4155,331>>, <<"Fma4_Lx",4164,331>>, <<"Fma4",4173,332>>, <<"Fma4",4182,333>>,
  <<"VexRvm_Lx",4191,327>>, <<"VexRvm_Lx",4206,328>>, <<"VexRvm_Lx",4221,327>>,
  <<"VexRvm_Lx",4236,328>>, <<"VexRvm_Lx",4251,327>>, <<"VexRvm_Lx",4266,328>>,
  <<"Fma4_Lx",4281,331>>, <<"Fma4_Lx",4293,331>>, <<"VexRvm_Lx",4305,327>>,
  <<"VexRvm_Lx",4317,328>>, <<"VexRvm",4329,329>>, <<"VexRvm",4341,330>>, <<"VexRvm_Lx",4353,327>>,
  <<"VexRvm_Lx",4365,328>>, <<"VexRvm",4377,329>>, <<"VexRvm",4389,330>>, <<"VexRvm_Lx",4401,327>>,
  <<"VexRvm_Lx",4413,328>>, <<"VexRvm",4425,329>>, <<"VexRvm",4437,330>>, <<"VexRvm_Lx",4449,327>>,
  <<"VexRvm_Lx",4464,328>>, <<"VexRvm_Lx",4479,327>>, <<"VexRvm_Lx",4494,328>>,
  <<"VexRvm_Lx",4509,327>>, <<"VexRvm_Lx",4524,328>>, <<"Fma4_Lx",4539,331>>,
  <<"Fma4_Lx",4551,331>>, <<"Fma4_Lx",4563,331>>, <<"Fma4_Lx",4572,331>>, <<"Fma4",4581,332>>,
  <<"Fma4",4590,333>>, <<"VexRvm_Lx",4599,327>>, <<"VexRvm_Lx",4612,328>>, <<"VexRvm",4625,329>>,
  <<"VexRvm",4638,330>>, <<"VexRvm_Lx",4651,327>>, <<"VexRvm_Lx",4664,328>>, <<"VexRvm",4677,329>>,
  <<"VexRvm",4690,330>>, <<"VexRvm_Lx",4703,327>>, <<"VexRvm_Lx",4716,328>>, <<"VexRvm",4729,329>>,
  <<"VexRvm",4742,330>>, <<"Fma4_Lx",4755,331>>, <<"Fma4_Lx",4765,331>>, <<"Fma4",4775,332>>,
  <<"Fma4",4785,333>>, <<"VexRvm_Lx",4795,327>>, <<"VexRvm_Lx",4808,328>>, <<"VexRvm",4821,329>>,
  <<"VexRvm",4834,330>>, <<"VexRvm_Lx",4847,327>>, <<"VexRvm_Lx",4860,328>>, <<"VexRvm",4873,329>>,
  <<"VexRvm",4886,330>>, <<"VexRvm_Lx",4899,327>>, <<"VexRvm_Lx",4912,328>>, <<"VexRvm",4925,329>>,
  <<"VexRvm",4938,330>>, <<"Fma4_Lx",4951,331>>, <<"Fma4_Lx",4961,331>>, <<"Fma4",4971,332>>,
  <<"Fma4",4981,333>>, <<"VexRmi_Lx",4991,334>>, <<"VexRmi_Lx",5002,335>>,
  <<"VexRmi_Lx",5013,336>>, <<"VexRmi_Lx",5024,337>>, <<"VexRm_Lx",5035,338>>,
  <<"VexRm_Lx",5043,338>>, <<"VexRm",5051,339>>, <<"VexRm",5059,340>>, <<"VexRmvRm_VM",5067,341>>,
  <<"VexRmvRm_VM",5078,342>>, <<"VexM_VM",5089,343>>, <<"VexM_VM",5103,344>>,
  <<"VexM_VM",5117,345>>, <<"VexM_VM",5131,345>>, <<"VexM_VM",5145,343>>, <<"VexM_VM",5159,344>>,
  <<"VexM_VM",5173,345>>, <<"VexM_VM",5187,345>>, <<"VexRmvRm_VM",5201,346>>,
  <<"VexRmvRm_VM",5212,347>>, <<"VexRm_Lx",5223,301>>, <<"VexRm_Lx",5233,306>>,
  <<"VexRm",5243,348>>, <<"VexRm",5253,349>>, <<"VexRmi_Lx",5263,350>>, <<"VexRmi_Lx",5274,351>>,
  <<"VexRmi",5285,352>>, <<"VexRmi",5296,353>>, <<"VexRvm_Lx",5307,250>>, <<"VexRvm_Lx",5315,250>>,
  <<"VexRvm_Lx",5323,250>>, <<"VexRvm_Lx",5331,250>>, <<"VexRvmi",5339,354>>,
  <<"VexRvmi_Lx",5351,355>>, <<"VexRvmi",5364,356>>, <<"VexRvmi_Lx",5377,357>>,
  <<"VexRvmi",5390,358>>, <<"VexRvmi",5403,354>>, <<"VexRvmi_Lx",5415,355>>,
  <<"VexRvmi",5428,356>>, <<"VexRvmi_Lx",5441,357>>, <<"VexRvmi",5454,358>>,
  <<"VexRvmi",5467,359>>, <<"VexRm_Lx",5477,360>>, <<"VexM",5484,361>>, <<"VexRmZDI",5493,362>>,
  <<"VexRvmMvr_Lx",5505,363>>, <<"VexRvmMvr_Lx",5516,364>>, <<"VexRvm_Lx",5527,365>>,
  <<"VexRvm_Lx",5534,366>>, <<"VexRvm",5541,367>>, <<"VexRvm",5548,368>>, <<"VexRvm_Lx",5555,365>>,
  <<"VexRvm_Lx",5562,366>>, <<"VexRvm",5569,367>>, <<"VexRvm",5576,368>>,
  <<"VexRmMr_Lx",5583,369>>, <<"VexRmMr_Lx",5591,370>>, <<"VexMovDQ",5599,371>>,
  <<"VexRm_Lx",5605,372>>, <<"VexRmMr_Lx",5614,373>>, <<"VexRmMr_Lx",5622,374>>,
  <<"VexRmMr_Lx",5632,375>>, <<"VexRmMr_Lx",5642,376>>, <<"VexRmMr_Lx",5650,377>>,
  <<"VexRmMr_Lx",5660,378>>, <<"VexRmMr_Lx",5670,379>>, <<"VexRmMr_Lx",5680,380>>,
  <<"VexRvm",5689,381>>, <<"VexRvmMr",5698,382>>, <<"VexRvmMr",5706,383>>, <<"VexRvm",5714,381>>,
  <<"VexRvmMr",5723,384>>, <<"VexRvmMr",5731,385>>, <<"VexRm_Lx",5739,386>>,
  <<"VexRm_Lx",5749,386>>, <<"VexMr_Lx",5759,387>>, <<"VexRm_Lx",5768,388>>,
  <<"VexMr_Lx",5778,387>>, <<"VexMr_Lx",5787,387>>, <<"VexMovDQ",5796,389>>,
  <<"VexMovSsSd",5802,390>>, <<"VexRm_Lx",5809,391>>, <<"VexRm_Lx",5819,391>>,
  <<"VexMovSsSd",5829,392>>, <<"VexRmMr_Lx",5836,393>>, <<"VexRmMr_Lx",5844,394>>,
  <<"VexRvmi_Lx",5852,261>>, <<"VexRvm_Lx",5861,246>>, <<"VexRvm_Lx",5868,247>>,
  <<"VexRvm_Lx",5875,248>>, <<"VexRvm_Lx",5882,249>>, <<"VexRvm_Lx",5889,256>>,
  <<"VexRvm_Lx",5895,395>>, <<"VexRm_Lx",5901,396>>, <<"VexRm_Lx",5908,391>>,
  <<"VexRm_Lx",5915,316>>, <<"VexRm_Lx",5922,396>>, <<"VexRvm_Lx",5929,397>>,
  <<"VexRvm_Lx",5939,398>>, <<"VexRvm_Lx",5949,397>>, <<"VexRvm_Lx",5959,398>>,
  <<"VexRvm_Lx",5969,398>>, <<"VexRvm_Lx",5976,395>>, <<"VexRvm_Lx",5983,399>>,
  <<"VexRvm_Lx",5990,398>>, <<"VexRvm_Lx",5998,398>>, <<"VexRvm_Lx",6006,398>>,
  <<"VexRvm_Lx",6015,398>>, <<"VexRvm_Lx",6024,398>>, <<"VexRvmi_Lx",6031,400>>,
  <<"VexRvm_Lx",6040,250>>, <<"VexRvm_Lx",6046,259>>, <<"VexRvm_Lx",6053,250>>,
  <<"VexRvm_Lx",6060,259>>, <<"VexRvm_Lx",6068,260>>, <<"VexRvm_Lx",6076,260>>,
  <<"VexRvm_Lx",6083,398>>, <<"VexRvm_Lx",6090,398>>, <<"VexRvmi_Lx",6097,261>>,
  <<"VexRvmr",6106,262>>, <<"VexRvmi_Lx",6116,261>>, <<"VexRm_Lx",6125,401>>,
  <<"VexRm_Lx",6138,402>>, <<"VexRm_Lx",6151,403>>, <<"VexRm_Lx",6167,403>>,
  <<"VexRm_Lx",6183,404>>, <<"VexRm_Lx",6196,405>>, <<"VexRvmi",6209,406>>,
  <<"VexRvrmRvmr_Lx",6220,331>>, <<"VexRvm_Lx",6227,407>>, <<"VexRvm_Lx",6234,408>>,
  <<"VexRvm_Lx",6241,409>>, <<"VexRvm_Lx",6250,410>>, <<"VexRvm_Lx",6259,411>>,
  <<"VexRvm_Lx",6268,409>>, <<"VexRmi",6277,412>>, <<"VexRmi",6288,413>>, <<"VexRvm_Lx",6299,409>>,
  <<"VexRvm_Lx",6308,410>>, <<"VexRvm_Lx",6317,411>>, <<"VexRvm_Lx",6326,409>>,
  <<"VexRmi",6335,414>>, <<"VexRmi",6346,415>>, <<"VexRvm_Lx",6357,416>>, <<"VexRvm_Lx",6364,407>>,
  <<"VexRvm_Lx",6372,408>>, <<"VexRvm_Lx",6380,416>>, <<"VexRvm_Lx",6388,417>>,
  <<"VexRvm_Lx",6396,417>>, <<"VexRvmi",6403,406>>, <<"VexRvmi",6410,406>>,
  <<"VexMr_Lx",6417,281>>, <<"VexMr_Lx",6429,281>>, <<"VexRvmi",6441,406>>, <<"VexRvmi",6448,406>>,
  <<"VexRvmi",6456,406>>, <<"VexRvmi",6464,406>>, <<"VexRvmi",6472,406>>, <<"VexRvmi",6480,406>>,
  <<"VexRm_Lx",6487,418>>, <<"VexRm_Lx",6499,418>>, <<"VexRvmi",6511,419>>, <<"VexRvmi",6522,419>>,
  <<"VexRvm_Lx",6533,420>>, <<"VexRvm_Lx",6540,421>>, <<"VexRvm_Lx",6547,420>>,
  <<"VexRvm_Lx",6556,422>>, <<"VexRvm_Lx",6565,260>>, <<"VexRvm_Lx",6575,259>>,
  <<"VexRvm_Lx",6585,423>>, <<"VexRvm_Lx",6594,424>>, <<"VexRvrmiRvmri_Lx",6603,425>>,
  <<"VexRvrmiRvmri_Lx",6614,425>>, <<"VexRvmRmi_Lx",6625,426>>, <<"VexRvmRmi_Lx",6635,427>>,
  <<"VexRmi",6645,428>>, <<"VexRvm",6653,429>>, <<"VexRvmRmi_Lx",6661,430>>,
  <<"VexRvm_Lx",6668,420>>, <<"VexRvm_Lx",6677,422>>, <<"VexRvm_Lx",6686,423>>,
  <<"VexRvm_Lx",6696,422>>, <<"VexRvm_Lx",6706,423>>, <<"VexRvm_Lx",6715,424>>,
  <<"VexRvm_Lx",6724,258>>, <<"VexRm_Lx",6731,316>>, <<"VexRm_Lx",6741,316>>,
  <<"VexMri",6751,431>>, <<"VexMri",6759,432>>, <<"VexMri",6767,433>>, <<"VexMri",6775,434>>,
  <<"VexRmvRm_VM",6783,435>>, <<"VexRmvRm_VM",6794,436>>, <<"VexRmvRm_VM",6805,437>>,
  <<"VexRmvRm_VM",6816,438>>, <<"VexRm",6827,252>>, <<"VexRm",6836,252>>, <<"VexRm",6845,252>>,
  <<"VexRvm_Lx",6854,250>>, <<"VexRm",6862,252>>, <<"VexRvm_Lx",6871,250>>, <<"VexRm",6880,252>>,
  <<"VexRm",6890,252>>, <<"VexRm",6900,252>>, <<"VexRm",6910,252>>, <<"VexRm",6920,252>>,
  <<"VexRm",6930,252>>, <<"VexRvm_Lx",6940,250>>, <<"VexRm",6948,252>>, <<"VexRm",6957,252>>,
  <<"VexRm",6966,252>>, <<"VexRm",6978,252>>, <<"VexRvm_Lx",6987,250>>, <<"VexRm",6995,252>>,
  <<"VexRvm_Lx",7004,250>>, <<"VexRvm_Lx",7013,250>>, <<"VexRm",7021,252>>, <<"VexRvmi",7030,439>>,
  <<"VexRvmi",7038,440>>, <<"VexRvmi",7046,441>>, <<"VexRvmi",7054,442>>, <<"VexRm_Lx",7062,418>>,
  <<"VexRm_Lx",7071,443>>, <<"VexRvmr",7080,444>>, <<"VexRvmr",7089,444>>, <<"VexRvmr",7099,444>>,
  <<"VexRvmr",7109,444>>, <<"VexRvmr",7119,444>>, <<"VexRvmr",7130,444>>, <<"VexRvmr",7141,444>>,
  <<"VexRvmr",7151,444>>, <<"VexRvmr",7161,444>>, <<"VexRvmr",7170,444>>, <<"VexRvmr",7179,444>>,
  <<"VexRvmr",7190,444>>, <<"VexRvm_Lx",7200,445>>, <<"VexRvm_Lx",7212,445>>,
  <<"VexRvm_Lx",7224,398>>, <<"VexRvm_Lx",7235,398>>, <<"VexRvmMvr_Lx",7244,446>>,
  <<"VexRvmMvr_Lx",7255,447>>, <<"VexRvm_Lx",7266,398>>, <<"VexRvm_Lx",7274,395>>,
  <<"VexRvm_Lx",7282,260>>, <<"VexRvm_Lx",7290,398>>, <<"VexRvm_Lx",7298,398>>,
  <<"VexRvm_Lx",7306,395>>, <<"VexRvm_Lx",7314,260>>, <<"VexRvm_Lx",7322,398>>,
  <<"VexRvm_Lx",7330,398>>, <<"VexRvm_Lx",7338,395>>, <<"VexRvm_Lx",7346,260>>,
  <<"VexRvm_Lx",7354,398>>, <<"VexRvm_Lx",7362,398>>, <<"VexRvm_Lx",7370,395>>,
  <<"VexRvm_Lx",7378,260>>, <<"VexRvm_Lx",7386,398>>, <<"VexRm_Lx",7394,448>>,
  <<"VexRm_Lx",7403,449>>, <<"VexMr_Lx",7412,450>>, <<"VexMr_Lx",7420,451>>,
  <<"VexRm_Lx",7428,452>>, <<"VexRm_Lx",7437,453>>, <<"VexRm_Lx",7446,453>>,
  <<"VexRm_Lx",7455,452>>, <<"VexRm_Lx",7464,386>>, <<"VexRm_Lx",7474,449>>,
  <<"VexMr_Lx",7483,454>>, <<"VexMr_Lx",7491,451>>, <<"VexMr_Lx",7499,450>>,
  <<"VexMr_Lx",7507,450>>, <<"VexMr_Lx",7516,451>>, <<"VexMr_Lx",7525,454>>,
  <<"VexMr_Lx",7534,451>>, <<"VexMr_Lx",7543,450>>, <<"VexMr_Lx",7552,455>>,
  <<"VexRm_Lx",7561,456>>, <<"VexRm_Lx",7571,457>>, <<"VexRm_Lx",7581,458>>,
  <<"VexRm_Lx",7591,459>>, <<"VexRm_Lx",7601,460>>, <<"VexRm_Lx",7611,456>>,
  <<"VexMr_Lx",7621,450>>, <<"VexMr_Lx",7631,451>>, <<"VexMr_Lx",7641,454>>,
  <<"VexMr_Lx",7651,451>>, <<"VexMr_Lx",7661,450>>, <<"VexMr_Lx",7671,455>>,
  <<"VexRm_Lx",7681,448>>, <<"VexMr_Lx",7690,455>>, <<"VexRm_Lx",7698,456>>,
  <<"VexRm_Lx",7708,457>>, <<"VexRm_Lx",7718,458>>, <<"VexRm_Lx",7728,459>>,
  <<"VexRm_Lx",7738,460>>, <<"VexRm_Lx",7748,456>>, <<"VexRvm_Lx",7758,399>>,
  <<"VexRvm_Lx",7766,398>>, <<"VexRvm_Lx",7776,398>>, <<"VexRvm_Lx",7785,398>>,
  <<"VexRvm_Lx",7793,395>>, <<"VexRvm_Lx",7801,461>>, <<"VexRvm_Lx",7809,398>>,
  <<"VexRvm_Lx",7817,462>>, <<"VexRvm_Lx",7832,399>>, <<"VexRvm_Lx",7841,250>>,
  <<"VexRvm_Lx",7846,259>>, <<"VexRvm_Lx",7852,260>>, <<"VexRvrmRvmr",7858,463>>,
  <<"VexVmi_Lx",7865,464>>, <<"VexVmi_Lx",7872,465>>, <<"VexRvm_Lx",7879,259>>,
  <<"VexRvm_Lx",7887,260>>, <<"VexVmi_Lx",7895,464>>, <<"VexVmi_Lx",7902,465>>,
  <<"VexRvm_Lx",7909,259>>, <<"VexRvm_Lx",7917,260>>, <<"VexRvmRmvRmi",7925,466>>,
  <<"VexRvmRmvRmi",7932,467>>, <<"VexRvmRmvRmi",7939,468>>, <<"VexRvmRmvRmi",7946,469>>,
  <<"VexRvm_Lx",7953,470>>, <<"VexMr_VM",7961,471>>, <<"VexMr_VM",7973,471>>,
  <<"VexMr_VM",7985,472>>, <<"VexMr_VM",7997,473>>, <<"VexRvmRmv",8009,474>>,
  <<"VexRvmRmv",8016,474>>, <<"VexRvmRmv",8023,474>>, <<"VexRvmRmv",8030,474>>,
  <<"VexRvmRmv",8037,474>>, <<"VexRvmRmv",8044,474>>, <<"VexRvmRmv",8051,474>>,
  <<"VexRvmRmv",8058,474>>, <<"VexRvm_Lx",8065,398>>, <<"VexRmi_Lx",8073,475>>,
  <<"VexRmi_Lx",8081,476>>, <<"VexRmi_Lx",8090,476>>, <<"VexRvm_Lx",8099,250>>,
  <<"VexRvm_Lx",8107,250>>, <<"VexRvm_Lx",8115,250>>, <<"VexRvmVmi_Lx",8123,477>>,
  <<"VexEvexVmi_Lx",8130,478>>, <<"VexRvmVmi_Lx",8138,479>>, <<"VexRvm_Lx",8145,395>>,
  <<"VexRvm_Lx",8153,399>>, <<"VexRvm_Lx",8161,258>>, <<"VexRvmVmi_Lx",8169,480>>,
  <<"VexRvmVmi_Lx",8176,481>>, <<"VexRvmVmi_Lx",8183,482>>, <<"VexRvm_Lx",8190,395>>,
  <<"VexRvm_Lx",8198,260>>, <<"VexRvm_Lx",8206,258>>, <<"VexRvmVmi_Lx",8214,483>>,
  <<"VexRvmVmi_Lx",8221,484>>, <<"VexEvexVmi_Lx",8228,478>>, <<"VexRvmVmi_Lx",8236,485>>,
  <<"VexRvm_Lx",8243,395>>, <<"VexRvm_Lx",8251,399>>, <<"VexRvm_Lx",8259,258>>,
  <<"VexRvmVmi_Lx",8267,486>>, <<"VexRvm_Lx",8274,398>>, <<"VexRvm_Lx",8281,395>>,
  <<"VexRvm_Lx",8288,399>>, <<"VexRvm_Lx",8295,398>>, <<"VexRvm_Lx",8303,398>>,
  <<"VexRvm_Lx",8311,398>>, <<"VexRvm_Lx",8320,398>>, <<"VexRvm_Lx",8329,398>>,
  <<"VexRvmi_Lx",8336,487>>, <<"VexRvmi_Lx",8347,488>>, <<"VexRm_Lx",8358,489>>,
  <<"VexRvm_Lx",8365,490>>, <<"VexRvm_Lx",8374,491>>, <<"VexRvm_Lx",8383,492>>,
  <<"VexRvm_Lx",8392,490>>, <<"VexRvm_Lx",8401,490>>, <<"VexRvm_Lx",8411,491>>,
  <<"VexRvm_Lx",8421,492>>, <<"VexRvm_Lx",8431,490>>, <<"VexRvm_Lx",8441,398>>,
  <<"VexRvm_Lx",8452,395>>, <<"VexRvm_Lx",8463,399>>, <<"VexRvm_Lx",8475,398>>,
  <<"VexRvm_Lx",8486,398>>, <<"VexRvm_Lx",8497,395>>, <<"VexRvm_Lx",8508,399>>,
  <<"VexRvm_Lx",8520,398>>, <<"VexRvm_Lx",8531,250>>, <<"VexRvm_Lx",8537,259>>,
  <<"VexRvm_Lx",8544,260>>, <<"VexRvmi_Lx",8551,493>>, <<"VexRvmi_Lx",8560,494>>,
  <<"VexRvmi",8569,495>>, <<"VexRvmi",8578,496>>, <<"VexRm_Lx",8587,497>>, <<"VexRm_Lx",8596,498>>,
  <<"VexRvm",8605,499>>, <<"VexRvm",8614,500>>, <<"VexRm",8623,314>>, <<"VexRm",8632,315>>,
  <<"VexRvm",8641,501>>, <<"VexRvm",8650,502>>, <<"VexRm_Lx",8659,338>>, <<"VexRvm",8666,503>>,
  <<"VexRmi_Lx",8673,504>>, <<"VexRmi_Lx",8683,505>>, <<"VexRvmi",8693,506>>,
  <<"VexRvmi",8703,507>>, <<"VexRmi_Lx",8713,350>>, <<"VexRmi_Lx",8725,351>>,
  <<"VexRvmi",8737,508>>, <<"VexRvmi",8749,509>>, <<"VexRmi_Lx",8761,510>>,
  <<"VexRmi_Lx",8770,510>>, <<"VexRvmi",8779,511>>, <<"VexRvmi",8788,512>>,
  <<"VexRm_Lx",8797,497>>, <<"VexRm_Lx",8808,498>>, <<"VexRvm",8819,499>>, <<"VexRvm",8830,500>>,
  <<"VexRm",8841,314>>, <<"VexRm",8852,315>>, <<"VexRvm",8863,501>>, <<"VexRvm",8874,502>>,
  <<"VexRm_Lx",8885,338>>, <<"VexRvm",8894,503>>, <<"VexRvm_Lx",8903,513>>,
  <<"VexRvm_Lx",8913,514>>, <<"VexRvm",8923,515>>, <<"VexRvm",8933,516>>, <<"VexMr_Lx",8943,517>>,
  <<"VexMr_Lx",8955,471>>, <<"VexM_VM",8967,343>>, <<"VexM_VM",8982,344>>, <<"VexM_VM",8997,345>>,
  <<"VexM_VM",9012,345>>, <<"VexM_VM",9027,343>>, <<"VexM_VM",9042,344>>, <<"VexM_VM",9057,345>>,
  <<"VexM_VM",9072,345>>, <<"VexMr_Lx",9087,473>>, <<"VexMr_Lx",9099,472>>,
  <<"VexRvmi_Lx",9111,518>>, <<"VexRvmi_Lx",9122,519>>, <<"VexRvmi_Lx",9133,518>>,
  <<"VexRvmi_Lx",9144,519>>, <<"VexRvmi_Lx",9155,520>>, <<"VexRvmi_Lx",9163,521>>,
  <<"VexRm_Lx",9171,522>>, <<"VexRm_Lx",9179,283>>, <<"VexRvm",9187,248>>, <<"VexRvm",9195,249>>,
  <<"VexM",9203,523>>, <<"VexRvm_Lx",9212,246>>, <<"VexRvm_Lx",9219,247>>, <<"VexRvm",9226,248>>,
  <<"VexRvm",9233,249>>, <<"VexRm_Lx",9240,489>>, <<"VexRm_Lx",9248,489>>, <<"VexRm",9256,279>>,
  <<"VexRm",9265,280>>, <<"VexRvm_Lx",9274,399>>, <<"VexRvm_Lx",9284,395>>,
  <<"VexRvm_Lx",9294,399>>, <<"VexRvm_Lx",9304,395>>, <<"VexRvm_Lx",9314,256>>,
  <<"VexRvm_Lx",9321,257>>, <<"VexOp",9328,524>>, <<"VexOp",9337,524>>, <<"X86M",9348,525>>,
  <<"X86M",9357,525>>, <<"X86Xadd",9366,526>>, <<"X86Xchg",353,527>>, <<"X86Op",9371,528>>,
  <<"X86Arith",8533,3>>, <<"ExtRm",9315,4>>, <<"ExtRm",9322,4>>, <<"X86M_Only",1030,529>>,
  <<"X86M_Only",1038,530>>, <<"X86M_Only",9378,529>>, <<"X86M_Only",9386,530>>,
  <<"X86M_Only",1048,531>>, <<"X86M_Only",1055,532>>, <<"X86M_Only",9396,531>>,
  <<"X86M_Only",9403,532>>, <<"X86M_Only",9412,531>>, <<"X86M_Only",9421,532>>,
  <<"X86M_Only",9432,531>>, <<"X86M_Only",9439,532>>, <<"X86Op",9448,533>>
  >>

(***************************************************************************)
(* X86InstDB::commonData (x86inst.cpp 1792-2328):                          *)
(* <<_flags (the F(..) and A512(..) flag names), _iSignatureIndex,         *)
(* _iSignatureCount>>.  A512(cpu, vl, masking, sae_er, b) expands as the   *)
(* macro at x86inst.cpp 159-166 does: masking K_ or KZ also sets EvexK_.   *)
(***************************************************************************)
commonData ==
  <<
  <<{},0,0>>, <<{"Lock", "RW"},13,10>>, <<{"RW"},21,2>>, <<{"Lock", "RW"},13,10>>,
  <<{"RW"},288,1>>, <<{"RW"},345,1>>, <<{"RW"},346,1>>, <<{"RW"},21,2>>, <<{"WO"},63,1>>,
  <<{"WO"},70,1>>, <<{"RW"},245,2>>, <<{"RW"},247,2>>, <<{"WO"},153,2>>, <<{"RW"},290,1>>,
  <<{"RW", "Special"},347,1>>, <<{"RW"},153,2>>, <<{"RW"},20,3>>, <<{"RW"},348,1>>,
  <<{"RO"},143,3>>, <<{"Lock", "RW"},146,3>>, <<{"Lock", "RW"},146,3>>, <<{"Lock", "RW"},146,3>>,
  <<{"Flow", "RW", "Volatile"},249,2>>, <<{"RW", "Special"},349,1>>, <<{"RW", "Special"},350,1>>,
  <<{"RW", "Special"},351,1>>, <<{"Volatile"},259,1>>, <<{"Volatile"},259,1>>,
  <<{"Volatile"},259,1>>, <<{"RO", "Volatile"},352,1>>, <<{"Special", "Volatile", "WO"},353,1>>,
  <<{},259,1>>, <<{"RW"},20,3>>, <<{"RW"},20,3>>, <<{"RW"},20,3>>, <<{"RW"},20,3>>,
  <<{"RW"},20,3>>, <<{"RW"},20,3>>, <<{"RW"},20,3>>, <<{"RW"},20,3>>, <<{"RO"},23,10>>,
  <<{"RW", "Special", "Volatile"},0,0>>, <<{"RW"},251,2>>, <<{"RW"},354,1>>,
  <<{"Lock", "RW", "Special"},107,4>>, <<{"Lock", "RW", "Special"},355,1>>,
  <<{"Lock", "RW", "Special"},356,1>>, <<{"RO"},357,1>>, <<{"RO"},358,1>>,
  <<{"RW", "Special", "Volatile"},359,1>>, <<{"RW", "Special"},360,1>>, <<{"RW"},253,2>>,
  <<{"WO"},61,1>>, <<{"WO"},63,1>>, <<{"WO"},361,1>>, <<{"WO"},362,1>>, <<{"WO"},362,1>>,
  <<{"WO"},363,1>>, <<{"WO"},364,1>>, <<{"WO"},61,1>>, <<{"WO"},365,1>>, <<{"WO"},365,1>>,
  <<{"WO"},227,1>>, <<{"WO"},309,1>>, <<{"RW", "Special"},366,1>>, <<{"RW", "Special"},367,1>>,
  <<{"RW", "Special"},368,1>>, <<{"Lock", "RW"},255,2>>, <<{"RW", "Special"},111,4>>,
  <<{"Volatile"},259,1>>, <<{"Special", "Volatile"},369,1>>, <<{"WO"},370,1>>, <<{"RW"},257,2>>,
  <<{"Fp"},259,1>>, <<{"FPU_M4", "FPU_M8", "Fp"},149,3>>, <<{"Fp"},259,2>>, <<{"Fp"},371,1>>,
  <<{"Fp"},260,1>>, <<{"Fp"},260,1>>, <<{"Fp"},260,1>>, <<{"Fp"},260,1>>, <<{"Fp"},261,2>>,
  <<{"Fp"},260,1>>, <<{"Fp"},260,1>>, <<{"FPU_M2", "FPU_M4", "Fp"},372,1>>,
  <<{"FPU_M2", "FPU_M4", "FPU_M8", "Fp"},373,1>>, <<{"FPU_M2", "FPU_M4", "FPU_M8", "Fp"},373,1>>,
  <<{"FPU_M2", "FPU_M4", "FPU_M8", "Fp"},373,1>>, <<{"FPU_M2", "FPU_M4", "FPU_M8", "Fp"},374,1>>,
  <<{"Fp"},375,1>>, <<{"Fp"},376,1>>, <<{"Fp"},377,1>>, <<{"FPU_M4", "FPU_M8", "Fp"},262,1>>,
  <<{"FPU_M10", "FPU_M4", "FPU_M8", "Fp"},374,1>>, <<{"Fp"},377,1>>, <<{"Fp", "Volatile"},259,1>>,
  <<{"Fp"},378,1>>, <<{"RW", "Special"},115,4>>, <<{"RW", "Special"},33,10>>,
  <<{"Lock", "RW"},255,2>>, <<{"RW"},263,2>>, <<{"Volatile"},379,1>>, <<{"Volatile"},259,1>>,
  <<{"Flow", "Volatile"},380,1>>, <<{"Flow", "Volatile"},380,1>>, <<{"Flow", "Volatile"},381,1>>,
  <<{"Flow", "Volatile"},380,1>>, <<{"Flow", "Volatile"},380,1>>, <<{"Flow", "Volatile"},380,1>>,
  <<{"Flow", "Volatile"},380,1>>, <<{"Flow", "Volatile"},380,1>>, <<{"Flow", "Volatile"},380,1>>,
  <<{"Flow", "Special", "Volatile"},265,2>>, <<{"Flow", "Volatile"},267,2>>,
  <<{"Vex", "WO"},382,1>>, <<{"Vex", "WO"},269,2>>, <<{"Vex", "WO"},271,2>>,
  <<{"Vex", "WO"},273,2>>, <<{"Vex", "WO"},275,2>>, <<{"Vex", "WO"},383,1>>,
  <<{"RO", "Vex"},384,1>>, <<{"Vex", "WO"},385,1>>, <<{"RW", "Special", "Volatile"},386,1>>,
  <<{"WO"},200,1>>, <<{"RO", "Volatile"},387,1>>, <<{"WO"},388,1>>,
  <<{"Special", "Volatile"},259,1>>, <<{"Special", "WO"},0,0>>, <<{"Special", "WO"},0,0>>,
  <<{"Special", "WO"},0,0>>, <<{"Special", "WO"},0,0>>, <<{"RW"},152,3>>,
  <<{"RO", "Special"},389,1>>, <<{"RO", "Special"},390,1>>, <<{"RW", "Volatile"},259,1>>,
  <<{"RO", "Special", "Volatile"},0,0>>, <<{"WO"},0,13>>, <<{"WO"},63,2>>, <<{"WO"},63,2>>,
  <<{"WO"},51,6>>, <<{"WO"},277,2>>, <<{"WO"},391,1>>, <<{"WO"},63,2>>, <<{"WO"},63,2>>,
  <<{"WO"},392,1>>, <<{"RW"},206,2>>, <<{"RW"},206,2>>, <<{"RW"},392,1>>, <<{"WO"},206,2>>,
  <<{"WO"},206,2>>, <<{"WO"},393,1>>, <<{"WO"},197,1>>, <<{"WO"},55,2>>, <<{"WO"},197,1>>,
  <<{"WO"},197,1>>, <<{"WO"},394,1>>, <<{"WO"},157,1>>, <<{"WO"},280,1>>, <<{"WO"},57,6>>,
  <<{"WO"},395,1>>, <<{"Special", "WO"},0,0>>, <<{"WO", "ZeroIfMem"},155,3>>,
  <<{"WO", "ZeroIfMem"},279,2>>, <<{"WO"},281,2>>, <<{"WO"},396,1>>, <<{"WO"},63,2>>,
  <<{"WO"},63,2>>, <<{"RW", "Special"},33,4>>, <<{"RW", "Special"},283,2>>,
  <<{"Lock", "RW"},256,1>>, <<{},285,2>>, <<{"Lock", "RW"},256,1>>, <<{"RW"},287,2>>,
  <<{"RW"},289,2>>, <<{"RW"},259,1>>, <<{"RW"},287,1>>, <<{"Special", "WO"},397,1>>,
  <<{"Special", "WO"},398,1>>, <<{"Special", "WO"},399,1>>, <<{"Special", "WO"},400,1>>,
  <<{"WO"},245,2>>, <<{"WO"},401,1>>, <<{"WO"},402,1>>, <<{"WO"},291,2>>, <<{"WO"},295,1>>,
  <<{"WO"},295,1>>, <<{"RW"},403,1>>, <<{"RW"},404,1>>, <<{"RW"},405,1>>, <<{"RW"},406,1>>,
  <<{"WO"},407,1>>, <<{"WO"},227,1>>, <<{"WO"},230,1>>, <<{"Special", "Volatile", "WO"},293,2>>,
  <<{"Special", "Volatile"},408,1>>, <<{"WO"},152,3>>, <<{"Special", "Volatile"},259,1>>,
  <<{"RO", "Volatile"},0,0>>, <<{"RO", "Volatile"},352,1>>, <<{"RW"},295,2>>, <<{"WO"},70,1>>,
  <<{"WO"},409,1>>, <<{"RW"},297,2>>, <<{"RW"},410,1>>, <<{"RW"},297,2>>, <<{"RW"},297,2>>,
  <<{"RW"},297,2>>, <<{"RW"},297,2>>, <<{"RW"},297,2>>, <<{"RW"},410,1>>, <<{"RW"},297,2>>,
  <<{"RW"},297,2>>, <<{"RO"},341,1>>, <<{"RO", "Special", "Volatile"},299,2>>,
  <<{"Special", "Volatile"},259,1>>, <<{"RW", "Special"},411,1>>, <<{"WO"},227,1>>,
  <<{"WO"},412,1>>, <<{"WO"},413,1>>, <<{"Special", "Volatile", "WO"},414,1>>,
  <<{"Special", "Volatile", "WO"},415,1>>, <<{"RW", "Special", "Volatile"},0,0>>,
  <<{"RW", "Special", "Volatile"},301,2>>, <<{"RW", "Special"},411,1>>, <<{"WO"},303,2>>,
  <<{"WO"},416,1>>, <<{"WO"},417,1>>, <<{"RO", "Special", "Volatile"},418,1>>,
  <<{"RW", "Special"},411,1>>, <<{"WO"},247,2>>, <<{"WO"},419,1>>, <<{"WO"},419,1>>,
  <<{"WO"},419,1>>, <<{"WO"},419,1>>, <<{"WO"},419,1>>, <<{"WO"},419,1>>, <<{"WO"},419,1>>,
  <<{"WO"},419,1>>, <<{"RW", "Special"},158,3>>, <<{"WO"},61,1>>, <<{},259,1>>, <<{},259,1>>,
  <<{},259,1>>, <<{"Volatile"},420,1>>, <<{"RO"},87,5>>, <<{},259,1>>,
  <<{"Evex", "EvexB8", "EvexER", "EvexKZ", "EvexK_", "EvexSet_F_", "EvexVL", "Vex", "WO"},161,3>>,
  <<{"Evex", "EvexB4", "EvexER", "EvexKZ", "EvexK_", "EvexSet_F_", "EvexVL", "Vex", "WO"},161,3>>,
  <<{"Evex", "EvexER", "EvexKZ", "EvexK_", "EvexSet_F_", "Vex", "WO"},421,1>>,
  <<{"Evex", "EvexER", "EvexKZ", "EvexK_", "EvexSet_F_", "Vex", "WO"},422,1>>,
  <<{"Vex", "WO"},161,2>>, <<{"Vex", "WO"},69,1>>, <<{"Vex", "WO"},63,1>>, <<{"Vex", "WO"},70,1>>,
  <<{"Evex", "EvexB4", "EvexKZ", "EvexK_", "EvexSet_F_", "EvexVL", "WO"},164,3>>,
  <<{"Evex", "EvexB8", "EvexKZ", "EvexK_", "EvexSet_F_", "EvexVL", "WO"},164,3>>,
  <<{"Evex", "EvexB8", "EvexKZ", "EvexK_", "EvexSet_DQ", "EvexVL", "Vex", "WO"},161,3>>,
  <<{"Evex", "EvexB4", "EvexKZ", "EvexK_", "EvexSet_DQ", "EvexVL", "Vex", "WO"},161,3>>,
  <<{"Evex", "EvexKZ", "EvexK_", "EvexSet_BW", "EvexVL", "WO"},161,3>>,
  <<{"Evex", "EvexB4", "EvexKZ", "EvexK_", "EvexSet_F_", "EvexVL", "WO"},161,3>>,
  <<{"Evex", "EvexB8", "EvexKZ", "EvexK_", "EvexSet_F_", "EvexVL", "WO"},161,3>>,
  <<{"Vex", "WO"},164,2>>, <<{"Vex", "WO"},305,2>>, <<{"Vex", "WO"},423,1>>,
  <<{"Evex", "EvexKZ", "EvexK_", "EvexSet_DQ", "EvexVL", "WO"},424,1>>,
  <<{"Evex", "EvexKZ", "EvexK_", "EvexSet_F_", "WO"},425,1>>,
  <<{"Evex", "EvexKZ", "EvexK_", "EvexSet_DQ", "WO"},426,1>>,
  <<{"Evex", "EvexKZ", "EvexK_", "EvexSet_DQ", "EvexVL", "WO"},425,1>>,
  <<{"Evex", "EvexKZ", "EvexK_", "EvexSet_F_", "WO"},426,1>>,
  <<{"Evex", "EvexKZ", "EvexK_", "EvexSet_DQ", "EvexVL", "WO"},427,1>>,
  <<{"Evex", "EvexKZ", "EvexK_", "EvexSet_F_", "EvexVL", "WO"},424,1>>,
  <<{"Evex", "EvexKZ", "EvexK_", "EvexSet_DQ", "WO"},232,1>>,
  <<{"Evex", "EvexKZ", "EvexK_", "EvexSet_F_", "WO"},232,1>>,
  <<{"Evex", "EvexKZ", "EvexK_", "EvexSet_F_", "EvexVL", "Vex", "WO"},424,1>>,
  <<{"Evex", "EvexKZ", "EvexK_", "EvexSet_F_", "EvexVL", "Vex", "WO"},325,1>>,
  <<{"Evex", "EvexB8", "EvexKZ", "EvexK_", "EvexSAE", "EvexSet_F_", "EvexVL", "Vex", "WO"},167,3>>,
  <<{"Evex", "EvexB4", "EvexKZ", "EvexK_", "EvexSAE", "EvexSet_F_", "EvexVL", "Vex", "WO"},167,3>>,
  <<{"Evex", "EvexKZ", "EvexK_", "EvexSAE", "EvexSet_F_", "Vex", "WO"},428,1>>,
  <<{"Evex", "EvexKZ", "EvexK_", "EvexSAE", "EvexSet_F_", "Vex", "WO"},429,1>>,
  <<{"Evex", "EvexSAE", "EvexSet_F_", "RO", "Vex"},357,1>>,
  <<{"Evex", "EvexSAE", "EvexSet_F_", "RO", "Vex"},358,1>>,
  <<{"Evex", "EvexKZ", "EvexK_", "EvexSet_F_", "EvexVL", "WO"},170,3>>,
  <<{"Evex", "EvexB4", "EvexKZ", "EvexK_", "EvexSet_F_", "EvexVL", "Vex", "WO"},173,3>>,
  <<{"Evex", "EvexB4", "EvexER", "EvexKZ", "EvexK_", "EvexSet_F_", "EvexVL", "Vex", "WO"},176,3>>,
  <<{"Evex", "EvexB8", "EvexER", "EvexKZ", "EvexK_", "EvexSet_F_", "EvexVL", "Vex", "WO"},307,2>>,
  <<{"Evex", "EvexB8", "EvexER", "EvexKZ", "EvexK_", "EvexSet_F_", "EvexVL", "Vex", "WO"},179,3>>,
  <<{"Evex", "EvexB8", "EvexER", "EvexKZ", "EvexK_", "EvexSet_DQ", "EvexVL", "WO"},176,3>>,
  <<{"Evex", "EvexB8", "EvexER", "EvexKZ", "EvexK_", "EvexSet_F_", "EvexVL", "WO"},307,2>>,
  <<{"Evex", "EvexKZ", "EvexK_", "EvexSAE", "EvexSet_F_", "EvexVL", "Vex", "WO"},173,3>>,
  <<{"Evex", "EvexB4", "EvexER", "EvexKZ", "EvexK_", "EvexSet_F_", "EvexVL", "Vex", "WO"},173,3>>,
  <<{"Evex", "EvexKZ", "EvexK_", "EvexSAE", "EvexSet_F_", "EvexVL", "Vex", "WO"},182,3>>,
  <<{"Evex", "EvexB4", "EvexER", "EvexKZ", "EvexK_", "EvexSet_DQ", "EvexVL", "WO"},173,3>>,
  <<{"Evex", "EvexB4", "EvexER", "EvexKZ", "EvexK_", "EvexSet_F_", "EvexVL", "WO"},176,3>>,
  <<{"Evex", "EvexB8", "EvexER", "EvexKZ", "EvexK_", "EvexSet_DQ", "EvexVL", "WO"},307,2>>,
  <<{"Evex", "EvexER", "EvexSet_F_", "Vex", "WO"},364,1>>,
  <<{"Evex", "EvexER", "EvexSet_F_", "WO"},364,1>>,
  <<{"Evex", "EvexER", "EvexSet_F_", "Vex", "WO"},430,1>>,
  <<{"Evex", "EvexKZ", "EvexK_", "EvexSAE", "EvexSet_F_", "Vex", "WO"},422,1>>,
  <<{"Evex", "EvexER", "EvexSet_F_", "Vex", "WO"},309,2>>,
  <<{"Evex", "EvexER", "EvexSet_F_", "WO"},311,2>>,
  <<{"Evex", "EvexB8", "EvexKZ", "EvexK_", "EvexSAE", "EvexSet_F_", "EvexVL", "Vex", "WO"},307,2>>,
  <<{"Evex", "EvexB8", "EvexKZ", "EvexK_", "EvexSAE", "EvexSet_F_", "EvexVL", "WO"},176,3>>,
  <<{"Evex", "EvexB8", "EvexKZ", "EvexK_", "EvexSAE", "EvexSet_F_", "EvexVL", "WO"},307,2>>,
  <<{"Evex", "EvexB8", "EvexKZ", "EvexK_", "EvexSAE", "EvexSet_DQ", "EvexVL", "WO"},176,3>>,
  <<{"Evex", "EvexB4", "EvexKZ", "EvexK_", "EvexSAE", "EvexSet_F_", "EvexVL", "Vex", "WO"},176,3>>,
  <<{"Evex", "EvexB4", "EvexKZ", "EvexK_", "EvexSAE", "EvexSet_DQ", "EvexVL", "WO"},173,3>>,
  <<{"Evex", "EvexB4", "EvexKZ", "EvexK_", "EvexSAE", "EvexSet_F_", "EvexVL", "WO"},176,3>>,
  <<{"Evex", "EvexSAE", "EvexSet_F_", "Vex", "WO"},364,1>>,
  <<{"Evex", "EvexSAE", "EvexSet_F_", "WO"},364,1>>,
  <<{"Evex", "EvexSAE", "EvexSet_F_", "Vex", "WO"},309,2>>,
  <<{"Evex", "EvexSAE", "EvexSet_F_", "WO"},311,2>>,
  <<{"Evex", "EvexB4", "EvexKZ", "EvexK_", "EvexSet_F_", "EvexVL", "WO"},173,3>>,
  <<{"Evex", "EvexER", "EvexSet_F_", "WO"},430,1>>,
  <<{"Evex", "EvexKZ", "EvexK_", "EvexSet_BW", "EvexVL", "WO"},164,3>>,
  <<{"Evex", "EvexB8", "EvexKZ", "EvexK_", "EvexSAE", "EvexSet_ERI", "WO"},67,1>>,
  <<{"Evex", "EvexB4", "EvexKZ", "EvexK_", "EvexSAE", "EvexSet_ERI", "WO"},67,1>>,
  <<{"Evex", "EvexKZ", "EvexK_", "EvexSet_F_", "EvexVL", "WO"},176,3>>, <<{"Vex", "WO"},183,1>>,
  <<{"Evex", "EvexKZ", "EvexK_", "EvexSet_F_", "EvexVL", "WO"},431,1>>,
  <<{"Evex", "EvexKZ", "EvexK_", "EvexSet_DQ", "WO"},184,1>>,
  <<{"Evex", "EvexKZ", "EvexK_", "EvexSet_DQ", "EvexVL", "WO"},431,1>>,
  <<{"Evex", "EvexKZ", "EvexK_", "EvexSet_F_", "WO"},184,1>>,
  <<{"Evex", "EvexSet_F_", "Vex", "WO"},370,1>>,
  <<{"Evex", "EvexB8", "EvexKZ", "EvexK_", "EvexSAE", "EvexSet_F_", "EvexVL", "RW"},185,3>>,
  <<{"Evex", "EvexB4", "EvexKZ", "EvexK_", "EvexSAE", "EvexSet_F_", "EvexVL", "RW"},185,3>>,
  <<{"Evex", "EvexKZ", "EvexK_", "EvexSAE", "EvexSet_F_", "RW"},432,1>>,
  <<{"Evex", "EvexKZ", "EvexK_", "EvexSAE", "EvexSet_F_", "RW"},433,1>>,
  <<{"Evex", "EvexB8", "EvexER", "EvexKZ", "EvexK_", "EvexSet_F_", "EvexVL", "RW", "Vex"},188,3>>,
  <<{"Evex", "EvexB4", "EvexER", "EvexKZ", "EvexK_", "EvexSet_F_", "EvexVL", "RW", "Vex"},188,3>>,
  <<{"Evex", "EvexER", "EvexKZ", "EvexK_", "EvexSet_F_", "RW", "Vex"},434,1>>,
  <<{"Evex", "EvexER", "EvexKZ", "EvexK_", "EvexSet_F_", "RW", "Vex"},435,1>>,
  <<{"Vex", "WO"},119,4>>, <<{"Vex", "WO"},313,2>>, <<{"Vex", "WO"},315,2>>,
  <<{"Evex", "EvexB8", "EvexK_", "EvexSet_DQ", "EvexVL", "WO"},436,1>>,
  <<{"Evex", "EvexB4", "EvexK_", "EvexSet_DQ", "EvexVL", "WO"},436,1>>,
  <<{"Evex", "EvexK_", "EvexSet_DQ", "WO"},437,1>>,
  <<{"Evex", "EvexK_", "EvexSet_DQ", "WO"},438,1>>, <<{"Vex", "WO"},176,2>>,
  <<{"Vex", "WO"},61,1>>, <<{"Vex", "WO"},227,1>>,
  <<{"Evex", "EvexK_", "EvexSet_F_", "EvexVL", "RW", "Vex_VM"},92,5>>,
  <<{"Evex", "EvexK_", "EvexSet_F_", "EvexVL", "RW", "Vex_VM"},97,5>>,
  <<{"Evex", "EvexK_", "EvexSet_PFI", "RO", "VM"},439,1>>,
  <<{"Evex", "EvexK_", "EvexSet_PFI", "RO", "VM"},440,1>>,
  <<{"Evex", "EvexK_", "EvexSet_PFI", "RO", "VM"},441,1>>,
  <<{"Evex", "EvexK_", "EvexSet_F_", "EvexVL", "RW", "Vex_VM"},102,5>>,
  <<{"Evex", "EvexK_", "EvexSet_F_", "EvexVL", "RW", "Vex_VM"},123,4>>,
  <<{"Evex", "EvexKZ", "EvexK_", "EvexSAE", "EvexSet_F_", "WO"},61,1>>,
  <<{"Evex", "EvexKZ", "EvexK_", "EvexSAE", "EvexSet_F_", "WO"},227,1>>,
  <<{"Evex", "EvexB8", "EvexKZ", "EvexK_", "EvexSAE", "EvexSet_F_", "EvexVL", "WO"},191,3>>,
  <<{"Evex", "EvexB4", "EvexKZ", "EvexK_", "EvexSAE", "EvexSet_F_", "EvexVL", "WO"},191,3>>,
  <<{"Evex", "EvexKZ", "EvexK_", "EvexSAE", "EvexSet_F_", "WO"},416,1>>,
  <<{"Evex", "EvexKZ", "EvexK_", "EvexSAE", "EvexSet_F_", "WO"},417,1>>, <<{"Vex", "WO"},317,1>>,
  <<{"Evex", "EvexKZ", "EvexK_", "EvexSet_F_", "EvexVL", "WO"},317,2>>,
  <<{"Evex", "EvexKZ", "EvexK_", "EvexSet_DQ", "WO"},442,1>>,
  <<{"Evex", "EvexKZ", "EvexK_", "EvexSet_DQ", "EvexVL", "WO"},317,2>>,
  <<{"Evex", "EvexKZ", "EvexK_", "EvexSet_F_", "WO"},442,1>>,
  <<{"Evex", "EvexSet_F_", "Vex", "WO"},443,1>>, <<{"Vex", "WO"},200,2>>,
  <<{"RO", "Vex", "Volatile"},387,1>>, <<{"RO", "Special", "Vex"},444,1>>, <<{"RW", "Vex"},127,4>>,
  <<{"RW", "Vex"},127,4>>,
  <<{"Evex", "EvexB8", "EvexKZ", "EvexK_", "EvexSAE", "EvexSet_F_", "EvexVL", "Vex", "WO"},161,3>>,
  <<{"Evex", "EvexB4", "EvexKZ", "EvexK_", "EvexSAE", "EvexSet_F_", "EvexVL", "Vex", "WO"},161,3>>,
  <<{"Evex", "EvexKZ", "EvexK_", "EvexSAE", "EvexSet_F_", "EvexVL", "Vex", "WO"},421,1>>,
  <<{"Evex", "EvexKZ", "EvexK_", "EvexSAE", "EvexSet_F_", "EvexVL", "Vex", "WO"},422,1>>,
  <<{"Evex", "EvexKZ", "EvexK_", "EvexSet_F_", "EvexVL", "Vex", "WO"},63,6>>,
  <<{"Evex", "EvexKZ", "EvexK_", "EvexSet_F_", "EvexVL", "Vex", "WO"},63,6>>,
  <<{"Evex", "EvexSet_F_", "Vex", "WO"},319,2>>,
  <<{"Evex", "EvexKZ", "EvexK_", "EvexSet_F_", "EvexVL", "Vex", "WO"},194,3>>,
  <<{"Vex", "WO"},63,4>>, <<{"Evex", "EvexKZ", "EvexK_", "EvexSet_F_", "EvexVL", "WO"},63,6>>,
  <<{"Evex", "EvexKZ", "EvexK_", "EvexSet_F_", "EvexVL", "WO"},63,6>>, <<{"Vex", "WO"},63,4>>,
  <<{"Evex", "EvexKZ", "EvexK_", "EvexSet_BW", "EvexVL", "WO"},63,6>>,
  <<{"Evex", "EvexKZ", "EvexK_", "EvexSet_F_", "EvexVL", "WO"},63,6>>,
  <<{"Evex", "EvexKZ", "EvexK_", "EvexSet_F_", "EvexVL", "WO"},63,6>>,
  <<{"Evex", "EvexKZ", "EvexK_", "EvexSet_BW", "EvexVL", "WO"},63,6>>,
  <<{"Evex", "EvexSet_F_", "Vex", "WO"},208,1>>, <<{"Evex", "EvexSet_F_", "Vex", "WO"},321,2>>,
  <<{"Evex", "EvexSet_F_", "Vex", "WO"},321,2>>, <<{"Evex", "EvexSet_F_", "Vex", "WO"},321,2>>,
  <<{"Evex", "EvexSet_F_", "Vex", "WO"},321,2>>, <<{"Vex", "WO"},445,1>>,
  <<{"Evex", "EvexSet_F_", "EvexVL", "Vex", "WO"},197,3>>,
  <<{"Evex", "EvexSet_F_", "EvexVL", "Vex", "WO"},200,3>>,
  <<{"Evex", "EvexSet_F_", "Vex", "WO"},203,3>>,
  <<{"Evex", "EvexKZ", "EvexK_", "EvexSet_F_", "Vex", "WO"},206,3>>,
  <<{"Evex", "EvexKZ", "EvexK_", "EvexSet_F_", "EvexVL", "Vex", "WO"},176,3>>,
  <<{"Evex", "EvexKZ", "EvexK_", "EvexSet_F_", "Vex", "WO"},209,3>>,
  <<{"Evex", "EvexKZ", "EvexK_", "EvexSet_F_", "EvexVL", "Vex", "WO"},63,6>>,
  <<{"Evex", "EvexKZ", "EvexK_", "EvexSet_F_", "EvexVL", "Vex", "WO"},63,6>>,
  <<{"Evex", "EvexB4", "EvexKZ", "EvexK_", "EvexSet_F_", "EvexVL", "Vex", "WO"},161,3>>,
  <<{"Evex", "EvexKZ", "EvexK_", "EvexSet_BW", "EvexVL", "Vex", "WO"},176,3>>,
  <<{"Evex", "EvexB4", "EvexKZ", "EvexK_", "EvexSet_BW", "EvexVL", "Vex", "WO"},161,3>>,
  <<{"Evex", "EvexKZ", "EvexK_", "EvexSet_BW", "EvexVL", "Vex", "WO"},161,3>>,
  <<{"Evex", "EvexB8", "EvexKZ", "EvexK_", "EvexSet_F_", "EvexVL", "Vex", "WO"},161,3>>,
  <<{"Evex", "EvexKZ", "EvexK_", "EvexSet_BW", "EvexVL", "Vex", "WO"},164,3>>,
  <<{"Evex", "EvexKZ", "EvexK_", "EvexSet_BW", "EvexVL", "Vex", "WO"},323,2>>,
  <<{"Evex", "EvexKZ", "EvexK_", "EvexSet_F_", "EvexVL", "Vex", "WO"},325,2>>,
  <<{"Evex", "EvexSet_CDI", "EvexVL", "WO"},446,1>>,
  <<{"Evex", "EvexKZ", "EvexK_", "EvexSet_F_", "EvexVL", "Vex", "WO"},447,1>>,
  <<{"Evex", "EvexKZ", "EvexK_", "EvexSet_BW", "EvexVL", "Vex", "WO"},327,2>>,
  <<{"Vex", "WO"},164,1>>, <<{"Evex", "EvexK_", "EvexSet_BW", "EvexVL", "WO"},212,3>>,
  <<{"Evex", "EvexB4", "EvexK_", "EvexSet_F_", "EvexVL", "WO"},212,3>>,
  <<{"Evex", "EvexK_", "EvexSet_BW", "EvexVL", "Vex", "WO"},215,3>>,
  <<{"Evex", "EvexB4", "EvexK_", "EvexSet_F_", "EvexVL", "Vex", "WO"},215,3>>,
  <<{"Evex", "EvexB8", "EvexK_", "EvexSet_F_", "EvexVL", "Vex", "WO"},215,3>>,
  <<{"Special", "Vex", "WO"},397,1>>, <<{"Special", "Vex", "WO"},398,1>>,
  <<{"Special", "Vex", "WO"},399,1>>, <<{"Special", "Vex", "WO"},400,1>>,
  <<{"Evex", "EvexB8", "EvexK_", "EvexSet_F_", "EvexVL", "WO"},212,3>>,
  <<{"Evex", "EvexB8", "EvexK_", "EvexSet_BW", "EvexVL", "WO"},212,3>>,
  <<{"Evex", "EvexB4", "EvexKZ", "EvexK_", "EvexSet_CDI", "EvexVL", "WO"},176,3>>,
  <<{"Vex", "WO"},165,1>>, <<{"Evex", "EvexKZ", "EvexK_", "EvexSet_VBMI", "EvexVL", "WO"},161,3>>,
  <<{"Evex", "EvexB4", "EvexKZ", "EvexK_", "EvexSet_F_", "EvexVL", "Vex", "WO"},136,2>>,
  <<{"Evex", "EvexB4", "EvexKZ", "EvexK_", "EvexSet_F_", "EvexVL", "RW"},188,3>>,
  <<{"Evex", "EvexB8", "EvexKZ", "EvexK_", "EvexSet_F_", "EvexVL", "RW"},188,3>>,
  <<{"Evex", "EvexKZ", "EvexK_", "EvexSet_BW", "EvexVL", "RW"},188,3>>, <<{"Vex", "WO"},131,4>>,
  <<{"Evex", "EvexB8", "EvexKZ", "EvexK_", "EvexSet_F_", "EvexVL", "Vex", "WO"},69,6>>,
  <<{"Evex", "EvexB8", "EvexKZ", "EvexK_", "EvexSet_F_", "EvexVL", "Vex", "WO"},69,6>>,
  <<{"Vex", "WO"},72,1>>, <<{"Vex", "WO"},71,1>>,
  <<{"Evex", "EvexB8", "EvexKZ", "EvexK_", "EvexSet_F_", "EvexVL", "Vex", "WO"},135,4>>,
  <<{"Evex", "EvexSet_BW", "Vex", "WO"},401,1>>, <<{"Evex", "EvexSet_DQ", "Vex", "WO"},370,1>>,
  <<{"Evex", "EvexSet_DQ", "Vex", "WO"},402,1>>, <<{"Evex", "EvexSet_BW", "Vex", "WO"},292,1>>,
  <<{"Evex", "EvexK_", "EvexSet_F_", "EvexVL", "RW", "Vex_VM"},97,5>>,
  <<{"Evex", "EvexK_", "EvexSet_F_", "EvexVL", "RW", "Vex_VM"},92,5>>,
  <<{"Evex", "EvexK_", "EvexSet_F_", "EvexVL", "RW", "Vex_VM"},123,4>>,
  <<{"Evex", "EvexK_", "EvexSet_F_", "EvexVL", "RW", "Vex_VM"},102,5>>,
  <<{"Evex", "EvexKZ", "EvexK_", "EvexSet_BW", "Vex", "WO"},329,2>>,
  <<{"Evex", "EvexKZ", "EvexK_", "EvexSet_DQ", "Vex", "WO"},331,2>>,
  <<{"Evex", "EvexKZ", "EvexK_", "EvexSet_DQ", "Vex", "WO"},333,2>>,
  <<{"Evex", "EvexKZ", "EvexK_", "EvexSet_BW", "Vex", "WO"},448,1>>,
  <<{"Evex", "EvexB8", "EvexKZ", "EvexK_", "EvexSet_CDI", "EvexVL", "WO"},176,3>>,
  <<{"Vex", "WO"},120,1>>,
  <<{"Evex", "EvexB8", "EvexKZ", "EvexK_", "EvexSet_IFMA", "EvexVL", "WO"},161,3>>,
  <<{"Vex", "WO"},127,4>>, <<{"Vex", "WO"},127,4>>,
  <<{"Evex", "EvexSet_BW", "EvexVL", "WO"},449,1>>,
  <<{"Evex", "EvexSet_DQ", "EvexVL", "WO"},449,1>>,
  <<{"Evex", "EvexKZ", "EvexK_", "EvexSet_F_", "EvexVL", "WO"},218,3>>,
  <<{"Evex", "EvexKZ", "EvexK_", "EvexSet_F_", "EvexVL", "WO"},221,3>>,
  <<{"Evex", "EvexSet_BW", "EvexVL", "WO"},446,1>>,
  <<{"Evex", "EvexSet_DQ", "EvexVL", "WO"},446,1>>,
  <<{"Evex", "EvexKZ", "EvexK_", "EvexSet_F_", "EvexVL", "WO"},224,3>>,
  <<{"Evex", "EvexKZ", "EvexK_", "EvexSet_BW", "EvexVL", "WO"},221,3>>,
  <<{"Evex", "EvexKZ", "EvexK_", "EvexSet_F_", "EvexVL", "Vex", "WO"},227,3>>,
  <<{"Evex", "EvexKZ", "EvexK_", "EvexSet_F_", "EvexVL", "Vex", "WO"},230,3>>,
  <<{"Evex", "EvexKZ", "EvexK_", "EvexSet_BW", "EvexVL", "Vex", "WO"},173,3>>,
  <<{"Evex", "EvexKZ", "EvexK_", "EvexSet_F_", "EvexVL", "Vex", "WO"},233,3>>,
  <<{"Evex", "EvexKZ", "EvexK_", "EvexSet_F_", "EvexVL", "Vex", "WO"},173,3>>,
  <<{"Evex", "EvexB8", "EvexKZ", "EvexK_", "EvexSet_DQ", "EvexVL", "WO"},161,3>>,
  <<{"Evex", "EvexB8", "EvexKZ", "EvexK_", "EvexSet_VBMI", "EvexVL", "WO"},161,3>>,
  <<{"Vex", "WO"},119,2>>,
  <<{"Evex", "EvexB4", "EvexKZ", "EvexK_", "EvexSet_F_", "EvexVL", "WO"},191,3>>,
  <<{"Evex", "EvexB8", "EvexKZ", "EvexK_", "EvexSet_F_", "EvexVL", "WO"},191,3>>,
  <<{"Vex", "WO"},335,2>>, <<{"Vex", "WO"},335,2>>, <<{"Vex", "WO"},335,2>>,
  <<{"Vex", "WO"},335,2>>, <<{"Evex", "EvexSet_BW", "EvexVL", "Vex", "WO"},161,3>>,
  <<{"Evex", "EvexK_", "EvexSet_F_", "EvexVL", "VM", "WO"},236,3>>,
  <<{"Evex", "EvexK_", "EvexSet_F_", "EvexVL", "VM", "WO"},337,2>>,
  <<{"Evex", "EvexK_", "EvexSet_F_", "EvexVL", "VM", "WO"},239,3>>, <<{"Vex", "WO"},339,2>>,
  <<{"Evex", "EvexB4", "EvexKZ", "EvexK_", "EvexSet_F_", "EvexVL", "Vex", "WO"},191,3>>,
  <<{"Evex", "EvexKZ", "EvexK_", "EvexSet_BW", "EvexVL", "Vex", "WO"},191,3>>,
  <<{"Evex", "EvexB4", "EvexKZ", "EvexK_", "EvexSet_F_", "EvexVL", "Vex", "WO"},75,6>>,
  <<{"Evex", "EvexSet_BW", "EvexVL", "Vex", "WO"},191,3>>,
  <<{"Evex", "EvexB8", "EvexKZ", "EvexK_", "EvexSet_F_", "EvexVL", "Vex", "WO"},75,6>>,
  <<{"Evex", "EvexKZ", "EvexK_", "EvexSet_BW", "EvexVL", "Vex", "WO"},75,6>>,
  <<{"Evex", "EvexB4", "EvexKZ", "EvexK_", "EvexSet_F_", "EvexVL", "Vex", "WO"},75,6>>,
  <<{"Evex", "EvexB8", "EvexKZ", "EvexK_", "EvexSet_F_", "EvexVL", "WO"},81,6>>,
  <<{"Evex", "EvexKZ", "EvexK_", "EvexSet_BW", "EvexVL", "Vex", "WO"},75,6>>,
  <<{"Evex", "EvexB4", "EvexKZ", "EvexK_", "EvexSet_F_", "EvexVL", "Vex", "WO"},75,6>>,
  <<{"Evex", "EvexB8", "EvexKZ", "EvexK_", "EvexSet_F_", "EvexVL", "Vex", "WO"},75,6>>,
  <<{"Evex", "EvexKZ", "EvexK_", "EvexSet_BW", "EvexVL", "Vex", "WO"},75,6>>,
  <<{"Evex", "EvexB4", "EvexKZ", "EvexK_", "EvexSet_F_", "EvexVL", "RW"},185,3>>,
  <<{"Evex", "EvexB8", "EvexKZ", "EvexK_", "EvexSet_F_", "EvexVL", "RW"},185,3>>,
  <<{"RO", "Vex"},341,2>>, <<{"Evex", "EvexK_", "EvexSet_BW", "EvexVL", "WO"},242,3>>,
  <<{"Evex", "EvexB4", "EvexK_", "EvexSet_F_", "EvexVL", "WO"},242,3>>,
  <<{"Evex", "EvexB8", "EvexK_", "EvexSet_F_", "EvexVL", "WO"},242,3>>,
  <<{"Evex", "EvexB8", "EvexKZ", "EvexK_", "EvexSAE", "EvexSet_DQ", "EvexVL", "WO"},164,3>>,
  <<{"Evex", "EvexB4", "EvexKZ", "EvexK_", "EvexSAE", "EvexSet_DQ", "EvexVL", "WO"},164,3>>,
  <<{"Evex", "EvexKZ", "EvexK_", "EvexSAE", "EvexSet_DQ", "WO"},450,1>>,
  <<{"Evex", "EvexKZ", "EvexK_", "EvexSAE", "EvexSet_DQ", "WO"},443,1>>,
  <<{"Evex", "EvexB8", "EvexKZ", "EvexK_", "EvexSet_F_", "EvexVL", "WO"},176,3>>,
  <<{"Evex", "EvexB4", "EvexKZ", "EvexK_", "EvexSet_F_", "EvexVL", "WO"},176,3>>,
  <<{"Evex", "EvexKZ", "EvexK_", "EvexSet_F_", "WO"},421,1>>,
  <<{"Evex", "EvexKZ", "EvexK_", "EvexSet_F_", "WO"},422,1>>,
  <<{"Evex", "EvexKZ", "EvexK_", "EvexSAE", "EvexSet_ERI", "WO"},421,1>>,
  <<{"Evex", "EvexKZ", "EvexK_", "EvexSAE", "EvexSet_ERI", "WO"},422,1>>, <<{"Vex", "WO"},422,1>>,
  <<{"Evex", "EvexB8", "EvexKZ", "EvexK_", "EvexSet_DQ", "EvexVL", "WO"},191,3>>,
  <<{"Evex", "EvexB4", "EvexKZ", "EvexK_", "EvexSet_DQ", "EvexVL", "WO"},191,3>>,
  <<{"Evex", "EvexKZ", "EvexK_", "EvexSet_DQ", "WO"},450,1>>,
  <<{"Evex", "EvexKZ", "EvexK_", "EvexSet_DQ", "WO"},443,1>>,
  <<{"Evex", "EvexKZ", "EvexK_", "EvexSAE", "EvexSet_F_", "WO"},450,1>>,
  <<{"Evex", "EvexKZ", "EvexK_", "EvexSAE", "EvexSet_F_", "WO"},443,1>>, <<{"Vex", "WO"},77,2>>,
  <<{"Vex", "WO"},450,1>>, <<{"Vex", "WO"},443,1>>,
  <<{"Evex", "EvexB8", "EvexER", "EvexKZ", "EvexK_", "EvexSet_F_", "EvexVL", "WO"},161,3>>,
  <<{"Evex", "EvexB4", "EvexER", "EvexKZ", "EvexK_", "EvexSet_F_", "EvexVL", "WO"},161,3>>,
  <<{"Evex", "EvexER", "EvexKZ", "EvexK_", "EvexSet_F_", "WO"},421,1>>,
  <<{"Evex", "EvexER", "EvexKZ", "EvexK_", "EvexSet_F_", "WO"},422,1>>,
  <<{"Evex", "EvexK_", "EvexSet_F_", "EvexVL", "VM", "WO"},343,2>>,
  <<{"Evex", "EvexB4", "EvexKZ", "EvexK_", "EvexSet_F_", "EvexVL", "WO"},165,2>>,
  <<{"Evex", "EvexB8", "EvexKZ", "EvexK_", "EvexSet_F_", "EvexVL", "WO"},165,2>>,
  <<{"Evex", "EvexB4", "EvexKZ", "EvexK_", "EvexSet_F_", "EvexVL", "Vex", "WO"},164,3>>,
  <<{"Evex", "EvexB8", "EvexKZ", "EvexK_", "EvexSet_F_", "EvexVL", "Vex", "WO"},164,3>>,
  <<{"Evex", "EvexB8", "EvexER", "EvexKZ", "EvexK_", "EvexSet_F_", "EvexVL", "Vex", "WO"},176,3>>,
  <<{"Vex", "Volatile"},420,1>>, <<{"Vex", "Volatile"},259,1>>, <<{"RO", "Volatile"},451,1>>,
  <<{"Lock", "RW", "Xchg"},139,4>>, <<{"Lock", "RW", "Xchg"},43,8>>, <<{"Special", "WO"},452,1>>,
  <<{"RO", "Special", "Volatile"},453,1>>, <<{"RO", "Special", "Volatile"},454,1>>,
  <<{"Special", "Volatile", "WO"},453,1>>, <<{"Special", "Volatile", "WO"},454,1>>,
  <<{"RO", "Special", "Volatile"},455,1>>
  >>

(***************************************************************************)
(* _x86InstAlphaIndex (x86inst.cpp 2555-2582): first instruction id of     *)
(* each initial letter, 65535 (0xFFFF) for a letter with no instruction.   *)
(***************************************************************************)
_x86InstAlphaIndex ==
  <<
  1, 23, 46, 129, 139, 143, 65535, 241, 245, 253, 285, 336, 347, 407, 410, 413, 65535, 576, 624,
  697, 701, 708, 1377, 1379, 65535, 65535
  >>

(***************************************************************************)
(* _x86InstISignatureData (x86inst.cpp 2710-3167):                         *)
(* <<opCount, archMask, implicit, operands>>, operands being indices into  *)
(* _x86InstOSignatureData.                                                 *)
(***************************************************************************)
_x86InstISignatureData ==
  <<
  <<2,{"X86", "X64"},0,<<1,2,0,0,0,0>>>>, <<2,{"X86", "X64"},0,<<3,4,0,0,0,0>>>>,
  <<2,{"X86", "X64"},0,<<5,6,0,0,0,0>>>>, <<2,{"X64"},0,<<7,8,0,0,0,0>>>>,
  <<2,{"X86", "X64"},0,<<9,10,0,0,0,0>>>>, <<2,{"X86", "X64"},0,<<11,12,0,0,0,0>>>>,
  <<2,{"X86", "X64"},0,<<13,14,0,0,0,0>>>>, <<2,{"X64"},0,<<15,16,0,0,0,0>>>>,
  <<2,{"X86", "X64"},0,<<17,18,0,0,0,0>>>>, <<2,{"X64"},0,<<19,20,0,0,0,0>>>>,
  <<2,{"X86"},0,<<13,21,0,0,0,0>>>>, <<2,{"X86"},0,<<22,23,0,0,0,0>>>>,
  <<2,{"X64"},0,<<22,24,0,0,0,0>>>>, <<2,{"X86", "X64"},0,<<25,26,0,0,0,0>>>>,
  <<2,{"X86", "X64"},0,<<27,28,0,0,0,0>>>>, <<2,{"X86", "X64"},0,<<29,30,0,0,0,0>>>>,
  <<2,{"X86", "X64"},0,<<31,32,0,0,0,0>>>>, <<2,{"X86", "X64"},0,<<33,23,0,0,0,0>>>>,
  <<2,{"X64"},0,<<34,24,0,0,0,0>>>>, <<2,{"X86", "X64"},0,<<35,36,0,0,0,0>>>>,
  <<2,{"X86", "X64"},0,<<37,12,0,0,0,0>>>>, <<2,{"X86", "X64"},0,<<38,39,0,0,0,0>>>>,
  <<2,{"X64"},0,<<40,16,0,0,0,0>>>>, <<2,{"X86", "X64"},0,<<41,26,0,0,0,0>>>>,
  <<2,{"X86", "X64"},0,<<12,28,0,0,0,0>>>>, <<2,{"X86", "X64"},0,<<42,30,0,0,0,0>>>>,
  <<2,{"X86", "X64"},0,<<36,32,0,0,0,0>>>>, <<2,{"X86", "X64"},0,<<39,23,0,0,0,0>>>>,
  <<2,{"X64"},0,<<16,24,0,0,0,0>>>>, <<2,{"X86", "X64"},0,<<32,36,0,0,0,0>>>>,
  <<2,{"X86", "X64"},0,<<43,12,0,0,0,0>>>>, <<2,{"X86", "X64"},0,<<23,39,0,0,0,0>>>>,
  <<2,{"X64"},0,<<24,16,0,0,0,0>>>>, <<2,{"X86", "X64"},1,<<44,36,0,0,0,0>>>>,
  <<3,{"X86", "X64"},2,<<45,44,12,0,0,0>>>>, <<3,{"X86", "X64"},2,<<46,47,39,0,0,0>>>>,
  <<3,{"X64"},2,<<48,49,16,0,0,0>>>>, <<2,{"X86", "X64"},0,<<37,50,0,0,0,0>>>>,
  <<2,{"X86", "X64"},0,<<38,51,0,0,0,0>>>>, <<2,{"X64"},0,<<40,52,0,0,0,0>>>>,
  <<3,{"X86", "X64"},0,<<17,12,53,0,0,0>>>>, <<3,{"X86", "X64"},0,<<13,39,54,0,0,0>>>>,
  <<3,{"X64"},0,<<19,16,54,0,0,0>>>>, <<2,{"X86", "X64"},0,<<27,37,0,0,0,0>>>>,
  <<2,{"X86", "X64"},0,<<33,38,0,0,0,0>>>>, <<2,{"X64"},0,<<34,40,0,0,0,0>>>>,
  <<2,{"X86", "X64"},0,<<37,27,0,0,0,0>>>>, <<2,{"X86", "X64"},0,<<38,33,0,0,0,0>>>>,
  <<2,{"X64"},0,<<40,34,0,0,0,0>>>>, <<2,{"X86", "X64"},0,<<31,35,0,0,0,0>>>>,
  <<2,{"X86", "X64"},0,<<35,31,0,0,0,0>>>>, <<2,{"X86", "X64"},0,<<17,55,0,0,0,0>>>>,
  <<2,{"X86", "X64"},0,<<13,56,0,0,0,0>>>>, <<2,{"X64"},0,<<19,57,0,0,0,0>>>>,
  <<2,{"X86", "X64"},0,<<58,43,0,0,0,0>>>>, <<2,{"X86", "X64"},0,<<59,23,0,0,0,0>>>>,
  <<2,{"X64"},0,<<60,24,0,0,0,0>>>>, <<2,{"X86", "X64"},0,<<61,62,0,0,0,0>>>>,
  <<2,{"X86", "X64"},0,<<63,64,0,0,0,0>>>>, <<2,{"X64"},0,<<7,65,0,0,0,0>>>>,
  <<2,{"X64"},0,<<66,16,0,0,0,0>>>>, <<2,{"X86", "X64"},0,<<66,67,0,0,0,0>>>>,
  <<2,{"X86", "X64"},0,<<68,65,0,0,0,0>>>>, <<2,{"X86", "X64"},0,<<66,69,0,0,0,0>>>>,
  <<2,{"X86", "X64"},0,<<70,65,0,0,0,0>>>>, <<2,{"X86", "X64"},0,<<71,72,0,0,0,0>>>>,
  <<2,{"X86", "X64"},0,<<73,74,0,0,0,0>>>>, <<2,{"X86", "X64"},0,<<75,76,0,0,0,0>>>>,
  <<2,{"X86", "X64"},0,<<77,78,0,0,0,0>>>>, <<3,{"X86", "X64"},0,<<66,65,69,0,0,0>>>>,
  <<3,{"X86", "X64"},0,<<66,69,26,0,0,0>>>>, <<3,{"X86", "X64"},0,<<71,74,72,0,0,0>>>>,
  <<3,{"X86", "X64"},0,<<71,72,26,0,0,0>>>>, <<3,{"X86", "X64"},0,<<75,78,76,0,0,0>>>>,
  <<3,{"X86", "X64"},0,<<75,76,26,0,0,0>>>>, <<3,{"X86", "X64"},0,<<66,65,79,0,0,0>>>>,
  <<3,{"X86", "X64"},0,<<71,74,79,0,0,0>>>>, <<3,{"X86", "X64"},0,<<66,69,26,0,0,0>>>>,
  <<3,{"X86", "X64"},0,<<71,72,26,0,0,0>>>>, <<3,{"X86", "X64"},0,<<75,78,69,0,0,0>>>>,
  <<3,{"X86", "X64"},0,<<75,76,26,0,0,0>>>>, <<3,{"X86", "X64"},0,<<66,65,69,0,0,0>>>>,
  <<3,{"X86", "X64"},0,<<66,69,26,0,0,0>>>>, <<3,{"X86", "X64"},0,<<71,74,69,0,0,0>>>>,
  <<3,{"X86", "X64"},0,<<71,72,26,0,0,0>>>>, <<3,{"X86", "X64"},0,<<75,78,69,0,0,0>>>>,
  <<3,{"X86", "X64"},0,<<75,76,26,0,0,0>>>>, <<2,{"X86", "X64"},0,<<36,2,0,0,0,0>>>>,
  <<2,{"X86", "X64"},0,<<12,28,0,0,0,0>>>>, <<2,{"X86", "X64"},0,<<42,30,0,0,0,0>>>>,
  <<2,{"X86", "X64"},0,<<39,23,0,0,0,0>>>>, <<2,{"X64"},0,<<16,24,0,0,0,0>>>>,
  <<3,{"X86", "X64"},0,<<66,80,65,0,0,0>>>>, <<3,{"X86", "X64"},0,<<71,80,74,0,0,0>>>>,
  <<2,{"X86", "X64"},0,<<66,80,0,0,0,0>>>>, <<2,{"X86", "X64"},0,<<71,81,0,0,0,0>>>>,
  <<2,{"X86", "X64"},0,<<75,82,0,0,0,0>>>>, <<3,{"X86", "X64"},0,<<66,80,65,0,0,0>>>>,
  <<3,{"X86", "X64"},0,<<71,81,74,0,0,0>>>>, <<2,{"X86", "X64"},0,<<66,80,0,0,0,0>>>>,
  <<2,{"X86", "X64"},0,<<71,81,0,0,0,0>>>>, <<2,{"X86", "X64"},0,<<75,82,0,0,0,0>>>>,
  <<3,{"X86", "X64"},0,<<66,83,65,0,0,0>>>>, <<3,{"X86", "X64"},0,<<71,84,74,0,0,0>>>>,
  <<2,{"X86", "X64"},0,<<66,83,0,0,0,0>>>>, <<2,{"X86", "X64"},0,<<71,84,0,0,0,0>>>>,
  <<2,{"X86", "X64"},0,<<75,85,0,0,0,0>>>>, <<3,{"X86", "X64"},1,<<31,32,86,0,0,0>>>>,
  <<3,{"X86", "X64"},1,<<27,43,87,0,0,0>>>>, <<3,{"X86", "X64"},1,<<33,23,88,0,0,0>>>>,
  <<3,{"X64"},1,<<34,24,89,0,0,0>>>>, <<2,{"X86", "X64"},1,<<44,36,0,0,0,0>>>>,
  <<3,{"X86", "X64"},2,<<44,90,12,0,0,0>>>>, <<3,{"X86", "X64"},2,<<47,91,39,0,0,0>>>>,
  <<3,{"X64"},2,<<49,92,16,0,0,0>>>>, <<2,{"X86", "X64"},1,<<44,36,0,0,0,0>>>>,
  <<3,{"X86", "X64"},2,<<90,44,12,0,0,0>>>>, <<3,{"X86", "X64"},2,<<91,47,39,0,0,0>>>>,
  <<3,{"X64"},2,<<92,49,16,0,0,0>>>>, <<4,{"X86", "X64"},0,<<66,65,65,69,0,0>>>>,
  <<4,{"X86", "X64"},0,<<66,65,69,65,0,0>>>>, <<4,{"X86", "X64"},0,<<71,74,74,72,0,0>>>>,
  <<4,{"X86", "X64"},0,<<71,74,72,74,0,0>>>>, <<3,{"X86", "X64"},0,<<66,93,65,0,0,0>>>>,
  <<2,{"X86", "X64"},0,<<66,83,0,0,0,0>>>>, <<2,{"X86", "X64"},0,<<71,84,0,0,0,0>>>>,
  <<2,{"X86", "X64"},0,<<75,85,0,0,0,0>>>>, <<3,{"X86", "X64"},0,<<94,65,65,0,0,0>>>>,
  <<3,{"X86", "X64"},0,<<95,74,74,0,0,0>>>>, <<3,{"X86", "X64"},0,<<66,65,96,0,0,0>>>>,
  <<3,{"X86", "X64"},0,<<71,74,97,0,0,0>>>>, <<5,{"X86", "X64"},0,<<66,65,69,65,98,0>>>>,
  <<5,{"X86", "X64"},0,<<66,65,65,69,98,0>>>>, <<5,{"X86", "X64"},0,<<71,74,72,74,98,0>>>>,
  <<5,{"X86", "X64"},0,<<71,74,74,72,98,0>>>>, <<3,{"X86", "X64"},0,<<71,72,26,0,0,0>>>>,
  <<3,{"X86", "X64"},0,<<71,74,72,0,0,0>>>>, <<3,{"X86", "X64"},0,<<75,78,76,0,0,0>>>>,
  <<3,{"X86", "X64"},0,<<75,76,26,0,0,0>>>>, <<2,{"X86", "X64"},0,<<31,35,0,0,0,0>>>>,
  <<2,{"X86", "X64"},0,<<27,37,0,0,0,0>>>>, <<2,{"X86", "X64"},0,<<33,38,0,0,0,0>>>>,
  <<2,{"X64"},0,<<34,40,0,0,0,0>>>>, <<2,{"X86", "X64"},0,<<12,99,0,0,0,0>>>>,
  <<2,{"X86", "X64"},0,<<39,100,0,0,0,0>>>>, <<2,{"X64"},0,<<16,101,0,0,0,0>>>>,
  <<2,{"X86", "X64"},0,<<27,99,0,0,0,0>>>>, <<2,{"X86", "X64"},0,<<33,100,0,0,0,0>>>>,
  <<2,{"X64"},0,<<34,101,0,0,0,0>>>>, <<1,{"X86", "X64"},0,<<102,0,0,0,0,0>>>>,
  <<2,{"X86", "X64"},0,<<103,104,0,0,0,0>>>>, <<2,{"X86", "X64"},0,<<105,106,0,0,0,0>>>>,
  <<2,{"X86", "X64"},0,<<17,12,0,0,0,0>>>>, <<2,{"X86", "X64"},0,<<13,39,0,0,0,0>>>>,
  <<2,{"X64"},0,<<19,16,0,0,0,0>>>>, <<2,{"X86", "X64"},2,<<107,107,0,0,0,0>>>>,
  <<2,{"X86", "X64"},0,<<66,67,0,0,0,0>>>>, <<2,{"X86", "X64"},0,<<60,65,0,0,0,0>>>>,
  <<3,{"X86", "X64"},0,<<27,43,108,0,0,0>>>>, <<3,{"X86", "X64"},0,<<33,23,108,0,0,0>>>>,
  <<3,{"X64"},0,<<34,24,108,0,0,0>>>>, <<3,{"X86", "X64"},0,<<66,65,69,0,0,0>>>>,
  <<3,{"X86", "X64"},0,<<71,74,72,0,0,0>>>>, <<3,{"X86", "X64"},0,<<75,78,76,0,0,0>>>>,
  <<4,{"X86", "X64"},0,<<66,65,69,26,0,0>>>>, <<4,{"X86", "X64"},0,<<71,74,72,26,0,0>>>>,
  <<4,{"X86", "X64"},0,<<75,78,76,26,0,0>>>>, <<4,{"X86", "X64"},0,<<109,65,69,26,0,0>>>>,
  <<4,{"X86", "X64"},0,<<110,74,72,26,0,0>>>>, <<4,{"X86", "X64"},0,<<111,78,76,26,0,0>>>>,
  <<2,{"X86", "X64"},0,<<70,65,0,0,0,0>>>>, <<2,{"X86", "X64"},0,<<73,74,0,0,0,0>>>>,
  <<2,{"X86", "X64"},0,<<77,78,0,0,0,0>>>>, <<2,{"X86", "X64"},0,<<66,67,0,0,0,0>>>>,
  <<2,{"X86", "X64"},0,<<71,69,0,0,0,0>>>>, <<2,{"X86", "X64"},0,<<75,72,0,0,0,0>>>>,
  <<2,{"X86", "X64"},0,<<66,69,0,0,0,0>>>>, <<2,{"X86", "X64"},0,<<71,72,0,0,0,0>>>>,
  <<2,{"X86", "X64"},0,<<75,76,0,0,0,0>>>>, <<2,{"X86", "X64"},0,<<66,112,0,0,0,0>>>>,
  <<2,{"X86", "X64"},0,<<71,69,0,0,0,0>>>>, <<2,{"X86", "X64"},0,<<75,72,0,0,0,0>>>>,
  <<3,{"X86", "X64"},0,<<68,65,26,0,0,0>>>>, <<3,{"X86", "X64"},0,<<70,74,26,0,0,0>>>>,
  <<3,{"X86", "X64"},0,<<73,78,26,0,0,0>>>>, <<4,{"X86", "X64"},0,<<113,65,69,26,0,0>>>>,
  <<4,{"X86", "X64"},0,<<114,74,72,26,0,0>>>>, <<4,{"X86", "X64"},0,<<115,78,76,26,0,0>>>>,
  <<3,{"X86", "X64"},0,<<113,65,69,0,0,0>>>>, <<3,{"X86", "X64"},0,<<114,74,72,0,0,0>>>>,
  <<3,{"X86", "X64"},0,<<115,78,76,0,0,0>>>>, <<3,{"X86", "X64"},0,<<66,69,26,0,0,0>>>>,
  <<3,{"X86", "X64"},0,<<71,72,26,0,0,0>>>>, <<3,{"X86", "X64"},0,<<75,76,26,0,0,0>>>>,
  <<2,{"X86", "X64"},0,<<66,67,0,0,0,0>>>>, <<2,{"X86", "X64"},0,<<71,72,0,0,0,0>>>>,
  <<2,{"X86", "X64"},0,<<75,76,0,0,0,0>>>>, <<2,{"X86", "X64"},0,<<94,65,0,0,0,0>>>>,
  <<2,{"X86", "X64"},0,<<95,74,0,0,0,0>>>>, <<2,{"X86", "X64"},0,<<116,78,0,0,0,0>>>>,
  <<2,{"X86", "X64"},0,<<66,96,0,0,0,0>>>>, <<2,{"X86", "X64"},0,<<71,97,0,0,0,0>>>>,
  <<2,{"X86", "X64"},0,<<75,117,0,0,0,0>>>>, <<2,{"X64"},0,<<7,65,0,0,0,0>>>>,
  <<2,{"X86", "X64"},0,<<66,118,0,0,0,0>>>>, <<2,{"X86", "X64"},0,<<68,65,0,0,0,0>>>>,
  <<2,{"X86", "X64"},0,<<60,65,0,0,0,0>>>>, <<2,{"X86", "X64"},0,<<66,57,0,0,0,0>>>>,
  <<3,{"X86", "X64"},0,<<66,65,65,0,0,0>>>>, <<2,{"X86", "X64"},0,<<119,65,0,0,0,0>>>>,
  <<2,{"X86", "X64"},0,<<66,120,0,0,0,0>>>>, <<3,{"X86", "X64"},0,<<66,65,65,0,0,0>>>>,
  <<4,{"X86", "X64"},0,<<111,65,69,26,0,0>>>>, <<4,{"X86", "X64"},0,<<111,74,72,26,0,0>>>>,
  <<4,{"X86", "X64"},0,<<111,78,76,26,0,0>>>>, <<3,{"X86", "X64"},0,<<109,65,69,0,0,0>>>>,
  <<3,{"X86", "X64"},0,<<110,74,72,0,0,0>>>>, <<3,{"X86", "X64"},0,<<111,78,76,0,0,0>>>>,
  <<2,{"X86", "X64"},0,<<121,65,0,0,0,0>>>>, <<2,{"X86", "X64"},0,<<68,74,0,0,0,0>>>>,
  <<2,{"X86", "X64"},0,<<70,78,0,0,0,0>>>>, <<2,{"X86", "X64"},0,<<68,65,0,0,0,0>>>>,
  <<2,{"X86", "X64"},0,<<70,74,0,0,0,0>>>>, <<2,{"X86", "X64"},0,<<73,78,0,0,0,0>>>>,
  <<2,{"X86", "X64"},0,<<122,65,0,0,0,0>>>>, <<2,{"X86", "X64"},0,<<121,74,0,0,0,0>>>>,
  <<2,{"X86", "X64"},0,<<68,78,0,0,0,0>>>>, <<2,{"X86", "X64"},0,<<66,123,0,0,0,0>>>>,
  <<2,{"X86", "X64"},0,<<71,67,0,0,0,0>>>>, <<2,{"X86", "X64"},0,<<75,69,0,0,0,0>>>>,
  <<2,{"X86", "X64"},0,<<66,124,0,0,0,0>>>>, <<2,{"X86", "X64"},0,<<71,123,0,0,0,0>>>>,
  <<2,{"X86", "X64"},0,<<75,67,0,0,0,0>>>>, <<2,{"X86", "X64"},0,<<66,125,0,0,0,0>>>>,
  <<2,{"X86", "X64"},0,<<71,126,0,0,0,0>>>>, <<2,{"X86", "X64"},0,<<75,69,0,0,0,0>>>>,
  <<2,{"X86", "X64"},0,<<127,65,0,0,0,0>>>>, <<2,{"X86", "X64"},0,<<128,74,0,0,0,0>>>>,
  <<2,{"X86", "X64"},0,<<129,78,0,0,0,0>>>>, <<2,{"X86", "X64"},0,<<130,65,0,0,0,0>>>>,
  <<2,{"X86", "X64"},0,<<131,74,0,0,0,0>>>>, <<2,{"X86", "X64"},0,<<132,78,0,0,0,0>>>>,
  <<3,{"X86", "X64"},0,<<111,65,69,0,0,0>>>>, <<3,{"X86", "X64"},0,<<111,74,72,0,0,0>>>>,
  <<3,{"X86", "X64"},0,<<111,78,76,0,0,0>>>>, <<3,{"X86", "X64"},0,<<13,23,39,0,0,0>>>>,
  <<3,{"X64"},0,<<19,24,16,0,0,0>>>>, <<3,{"X86", "X64"},0,<<13,39,23,0,0,0>>>>,
  <<3,{"X64"},0,<<19,16,24,0,0,0>>>>, <<1,{"X86", "X64"},0,<<133,0,0,0,0,0>>>>,
  <<1,{"X86"},0,<<39,0,0,0,0,0>>>>, <<2,{"X86", "X64"},2,<<107,107,0,0,0,0>>>>,
  <<3,{"X86", "X64"},0,<<113,67,26,0,0,0>>>>, <<2,{"X86", "X64"},0,<<38,134,0,0,0,0>>>>,
  <<2,{"X64"},0,<<40,135,0,0,0,0>>>>, <<1,{"X86"},0,<<136,0,0,0,0,0>>>>,
  <<1,{"X86", "X64"},0,<<25,0,0,0,0,0>>>>, <<3,{"X86", "X64"},0,<<113,26,26,0,0,0>>>>,
  <<2,{"X86", "X64"},0,<<113,65,0,0,0,0>>>>, <<0,{"X86", "X64"},0,<<0,0,0,0,0,0>>>>,
  <<1,{"X86", "X64"},0,<<105,0,0,0,0,0>>>>, <<0,{"X86", "X64"},0,<<0,0,0,0,0,0>>>>,
  <<1,{"X86", "X64"},0,<<137,0,0,0,0,0>>>>, <<2,{"X86", "X64"},0,<<113,65,0,0,0,0>>>>,
  <<4,{"X86", "X64"},0,<<113,65,26,26,0,0>>>>, <<2,{"X86"},0,<<138,139,0,0,0,0>>>>,
  <<2,{"X64"},0,<<140,139,0,0,0,0>>>>, <<1,{"X86", "X64"},0,<<141,0,0,0,0,0>>>>,
  <<1,{"X86"},0,<<39,0,0,0,0,0>>>>, <<2,{"X86", "X64"},0,<<111,142,0,0,0,0>>>>,
  <<2,{"X86", "X64"},0,<<143,144,0,0,0,0>>>>, <<2,{"X86", "X64"},0,<<111,145,0,0,0,0>>>>,
  <<2,{"X86", "X64"},0,<<146,144,0,0,0,0>>>>, <<2,{"X86", "X64"},0,<<111,147,0,0,0,0>>>>,
  <<2,{"X86", "X64"},0,<<7,144,0,0,0,0>>>>, <<2,{"X86", "X64"},0,<<111,148,0,0,0,0>>>>,
  <<2,{"X86", "X64"},0,<<149,144,0,0,0,0>>>>, <<2,{"X86", "X64"},0,<<150,151,0,0,0,0>>>>,
  <<2,{"X86", "X64"},0,<<146,152,0,0,0,0>>>>, <<2,{"X86", "X64"},0,<<66,123,0,0,0,0>>>>,
  <<2,{"X86", "X64"},0,<<59,65,0,0,0,0>>>>, <<2,{"X86", "X64"},0,<<153,36,0,0,0,0>>>>,
  <<2,{"X86", "X64"},0,<<154,12,0,0,0,0>>>>, <<4,{"X86", "X64"},1,<<13,13,39,155,0,0>>>>,
  <<4,{"X64"},1,<<19,19,16,156,0,0>>>>, <<0,{"X86", "X64"},0,<<0,0,0,0,0,0>>>>,
  <<1,{"X86", "X64"},0,<<157,0,0,0,0,0>>>>, <<2,{"X86", "X64"},0,<<158,159,0,0,0,0>>>>,
  <<2,{"X86", "X64"},0,<<113,69,0,0,0,0>>>>, <<3,{"X86", "X64"},0,<<158,159,26,0,0,0>>>>,
  <<3,{"X86", "X64"},0,<<113,69,26,0,0,0>>>>, <<3,{"X86", "X64"},0,<<154,64,26,0,0,0>>>>,
  <<3,{"X86", "X64"},0,<<149,65,26,0,0,0>>>>, <<1,{"X86", "X64"},0,<<160,0,0,0,0,0>>>>,
  <<1,{"X86"},0,<<5,0,0,0,0,0>>>>, <<2,{"X86", "X64"},0,<<61,159,0,0,0,0>>>>,
  <<2,{"X86", "X64"},0,<<66,69,0,0,0,0>>>>, <<2,{"X86", "X64"},0,<<158,161,0,0,0,0>>>>,
  <<2,{"X86", "X64"},0,<<113,79,0,0,0,0>>>>, <<1,{"X86", "X64"},0,<<162,0,0,0,0,0>>>>,
  <<1,{"X86"},0,<<39,0,0,0,0,0>>>>, <<0,{"X86", "X64"},0,<<0,0,0,0,0,0>>>>,
  <<1,{"X86", "X64"},0,<<163,0,0,0,0,0>>>>, <<3,{"X86", "X64"},0,<<13,39,26,0,0,0>>>>,
  <<3,{"X64"},0,<<19,16,26,0,0,0>>>>, <<4,{"X86", "X64"},0,<<66,65,69,65,0,0>>>>,
  <<4,{"X86", "X64"},0,<<71,74,72,74,0,0>>>>, <<2,{"X86", "X64"},0,<<66,164,0,0,0,0>>>>,
  <<2,{"X86", "X64"},0,<<71,76,0,0,0,0>>>>, <<2,{"X86", "X64"},0,<<154,123,0,0,0,0>>>>,
  <<2,{"X64"},0,<<19,67,0,0,0,0>>>>, <<2,{"X86", "X64"},0,<<13,123,0,0,0,0>>>>,
  <<2,{"X64"},0,<<19,67,0,0,0,0>>>>, <<4,{"X86", "X64"},0,<<66,65,65,67,0,0>>>>,
  <<4,{"X86", "X64"},0,<<66,65,67,65,0,0>>>>, <<4,{"X86", "X64"},0,<<66,65,65,123,0,0>>>>,
  <<4,{"X86", "X64"},0,<<66,65,123,65,0,0>>>>, <<4,{"X86", "X64"},0,<<71,74,69,26,0,0>>>>,
  <<4,{"X86", "X64"},0,<<75,78,69,26,0,0>>>>, <<2,{"X86", "X64"},0,<<146,65,0,0,0,0>>>>,
  <<2,{"X86", "X64"},0,<<66,151,0,0,0,0>>>>, <<2,{"X86", "X64"},0,<<60,65,0,0,0,0>>>>,
  <<3,{"X86", "X64"},0,<<66,65,57,0,0,0>>>>, <<2,{"X86", "X64"},0,<<165,166,0,0,0,0>>>>,
  <<2,{"X86", "X64"},0,<<165,167,0,0,0,0>>>>, <<2,{"X86", "X64"},0,<<165,123,0,0,0,0>>>>,
  <<2,{"X86", "X64"},0,<<165,167,0,0,0,0>>>>, <<2,{"X86", "X64"},0,<<165,124,0,0,0,0>>>>,
  <<2,{"X86", "X64"},0,<<165,167,0,0,0,0>>>>, <<3,{"X86", "X64"},0,<<66,168,26,0,0,0>>>>,
  <<4,{"X86", "X64"},0,<<66,65,168,26,0,0>>>>, <<3,{"X86", "X64"},0,<<66,151,26,0,0,0>>>>,
  <<4,{"X86", "X64"},0,<<66,65,151,26,0,0>>>>, <<3,{"X64"},0,<<66,16,26,0,0,0>>>>,
  <<4,{"X64"},0,<<66,65,16,26,0,0>>>>, <<3,{"X86", "X64"},0,<<66,65,69,0,0,0>>>>,
  <<3,{"X86", "X64"},0,<<66,69,169,0,0,0>>>>, <<2,{"X86", "X64"},0,<<170,65,0,0,0,0>>>>,
  <<2,{"X86", "X64"},0,<<132,74,0,0,0,0>>>>, <<3,{"X86", "X64"},0,<<66,65,69,0,0,0>>>>,
  <<3,{"X86", "X64"},0,<<66,69,65,0,0,0>>>>, <<2,{"X86", "X64"},0,<<65,69,0,0,0,0>>>>,
  <<2,{"X86", "X64"},0,<<74,72,0,0,0,0>>>>, <<2,{"X86", "X64"},0,<<127,171,0,0,0,0>>>>,
  <<2,{"X86", "X64"},0,<<128,78,0,0,0,0>>>>, <<2,{"X86", "X64"},0,<<113,67,0,0,0,0>>>>,
  <<2,{"X86", "X64"},0,<<113,123,0,0,0,0>>>>, <<3,{"X86", "X64"},1,<<113,69,172,0,0,0>>>>,
  <<1,{"X86", "X64"},0,<<173,0,0,0,0,0>>>>, <<1,{"X86", "X64"},1,<<44,0,0,0,0,0>>>>,
  <<2,{"X86", "X64"},2,<<46,88,0,0,0,0>>>>, <<1,{"X64"},1,<<49,0,0,0,0,0>>>>,
  <<1,{"X86", "X64"},0,<<174,0,0,0,0,0>>>>, <<1,{"X86", "X64"},1,<<175,0,0,0,0,0>>>>,
  <<3,{"X86", "X64"},0,<<113,123,26,0,0,0>>>>, <<5,{"X64"},4,<<176,92,49,177,178,0>>>>,
  <<5,{"X86", "X64"},4,<<179,91,47,180,181,0>>>>, <<2,{"X86", "X64"},0,<<65,67,0,0,0,0>>>>,
  <<2,{"X86", "X64"},0,<<65,123,0,0,0,0>>>>, <<4,{"X86", "X64"},4,<<47,182,183,46,0,0>>>>,
  <<2,{"X64"},2,<<48,89,0,0,0,0>>>>, <<2,{"X86", "X64"},0,<<61,69,0,0,0,0>>>>,
  <<2,{"X86", "X64"},0,<<66,159,0,0,0,0>>>>, <<2,{"X86", "X64"},0,<<61,67,0,0,0,0>>>>,
  <<2,{"X86", "X64"},0,<<154,67,0,0,0,0>>>>, <<2,{"X86", "X64"},0,<<66,42,0,0,0,0>>>>,
  <<2,{"X86", "X64"},2,<<45,87,0,0,0,0>>>>, <<1,{"X86", "X64"},1,<<47,0,0,0,0,0>>>>,
  <<1,{"X86"},1,<<44,0,0,0,0,0>>>>, <<2,{"X86", "X64"},0,<<163,26,0,0,0,0>>>>,
  <<3,{"X86", "X64"},0,<<146,65,26,0,0,0>>>>, <<1,{"X86", "X64"},0,<<184,0,0,0,0,0>>>>,
  <<1,{"X86", "X64"},0,<<185,0,0,0,0,0>>>>, <<1,{"X86", "X64"},0,<<186,0,0,0,0,0>>>>,
  <<1,{"X86", "X64"},0,<<187,0,0,0,0,0>>>>, <<1,{"X86", "X64"},0,<<188,0,0,0,0,0>>>>,
  <<1,{"X86", "X64"},0,<<189,0,0,0,0,0>>>>, <<1,{"X86", "X64"},0,<<190,0,0,0,0,0>>>>,
  <<1,{"X64"},0,<<189,0,0,0,0,0>>>>, <<1,{"X86", "X64"},0,<<191,0,0,0,0,0>>>>,
  <<1,{"X86", "X64"},0,<<192,0,0,0,0,0>>>>, <<1,{"X86", "X64"},0,<<193,0,0,0,0,0>>>>,
  <<3,{"X86", "X64"},0,<<111,144,144,0,0,0>>>>, <<2,{"X86", "X64"},0,<<111,144,0,0,0,0>>>>,
  <<2,{"X86", "X64"},0,<<144,144,0,0,0,0>>>>, <<3,{"X86", "X64"},0,<<111,144,26,0,0,0>>>>,
  <<1,{"X86", "X64"},1,<<194,0,0,0,0,0>>>>, <<1,{"X86", "X64"},0,<<56,0,0,0,0,0>>>>,
  <<2,{"X86", "X64"},0,<<153,174,0,0,0,0>>>>, <<3,{"X86", "X64"},1,<<113,65,175,0,0,0>>>>,
  <<3,{"X86", "X64"},1,<<158,64,175,0,0,0>>>>, <<2,{"X86", "X64"},0,<<61,65,0,0,0,0>>>>,
  <<2,{"X86", "X64"},0,<<66,65,0,0,0,0>>>>, <<2,{"X86", "X64"},0,<<154,65,0,0,0,0>>>>,
  <<2,{"X86", "X64"},0,<<60,64,0,0,0,0>>>>, <<2,{"X86", "X64"},0,<<66,64,0,0,0,0>>>>,
  <<2,{"X64"},0,<<19,39,0,0,0,0>>>>, <<6,{"X86", "X64"},3,<<65,69,26,195,88,155>>>>,
  <<6,{"X86", "X64"},3,<<65,69,26,196,88,155>>>>, <<4,{"X86", "X64"},1,<<65,69,26,195,0,0>>>>,
  <<4,{"X86", "X64"},1,<<65,69,26,196,0,0>>>>, <<3,{"X86", "X64"},0,<<143,65,26,0,0,0>>>>,
  <<3,{"X64"},0,<<7,65,26,0,0,0>>>>, <<3,{"X86", "X64"},0,<<113,168,26,0,0,0>>>>,
  <<3,{"X86", "X64"},0,<<113,151,26,0,0,0>>>>, <<3,{"X64"},0,<<113,16,26,0,0,0>>>>,
  <<3,{"X86", "X64"},0,<<197,198,26,0,0,0>>>>, <<2,{"X86", "X64"},0,<<154,152,0,0,0,0>>>>,
  <<0,{"X86"},0,<<0,0,0,0,0,0>>>>, <<3,{"X86", "X64"},0,<<61,159,26,0,0,0>>>>,
  <<2,{"X86", "X64"},0,<<113,26,0,0,0,0>>>>, <<2,{"X86", "X64"},0,<<25,108,0,0,0,0>>>>,
  <<1,{"X64"},0,<<154,0,0,0,0,0>>>>, <<1,{"X86", "X64"},0,<<153,0,0,0,0,0>>>>,
  <<2,{"X86", "X64"},2,<<46,199,0,0,0,0>>>>, <<3,{"X86", "X64"},3,<<46,199,195,0,0,0>>>>,
  <<3,{"X86", "X64"},0,<<66,67,26,0,0,0>>>>, <<3,{"X86", "X64"},0,<<66,123,26,0,0,0>>>>,
  <<1,{"X86", "X64"},1,<<200,0,0,0,0,0>>>>, <<1,{"X86", "X64"},0,<<1,0,0,0,0,0>>>>,
  <<1,{"X86", "X64"},0,<<59,0,0,0,0,0>>>>, <<3,{"X86", "X64"},0,<<66,65,67,0,0,0>>>>,
  <<3,{"X86", "X64"},0,<<66,65,123,0,0,0>>>>, <<2,{"X86", "X64"},0,<<71,96,0,0,0,0>>>>,
  <<2,{"X86", "X64"},0,<<201,67,0,0,0,0>>>>, <<2,{"X86", "X64"},0,<<201,96,0,0,0,0>>>>,
  <<2,{"X86", "X64"},0,<<75,97,0,0,0,0>>>>, <<2,{"X86", "X64"},0,<<165,67,0,0,0,0>>>>,
  <<4,{"X86", "X64"},0,<<109,65,67,26,0,0>>>>, <<4,{"X86", "X64"},0,<<109,65,123,26,0,0>>>>,
  <<3,{"X86", "X64"},0,<<66,65,42,0,0,0>>>>, <<3,{"X86", "X64"},0,<<70,202,26,0,0,0>>>>,
  <<4,{"X86", "X64"},0,<<113,65,67,26,0,0>>>>, <<4,{"X86", "X64"},0,<<113,65,123,26,0,0>>>>,
  <<3,{"X86", "X64"},0,<<113,65,67,0,0,0>>>>, <<3,{"X86", "X64"},0,<<113,65,123,0,0,0>>>>,
  <<3,{"X86", "X64"},0,<<111,203,26,0,0,0>>>>, <<3,{"X86", "X64"},0,<<111,67,26,0,0,0>>>>,
  <<3,{"X86", "X64"},0,<<111,123,26,0,0,0>>>>, <<1,{"X86", "X64"},0,<<81,0,0,0,0,0>>>>,
  <<1,{"X86", "X64"},0,<<82,0,0,0,0,0>>>>, <<1,{"X86", "X64"},0,<<85,0,0,0,0,0>>>>,
  <<4,{"X86", "X64"},0,<<75,78,72,26,0,0>>>>, <<4,{"X86", "X64"},0,<<66,65,123,26,0,0>>>>,
  <<3,{"X86", "X64"},1,<<65,65,175,0,0,0>>>>, <<2,{"X86", "X64"},0,<<154,171,0,0,0,0>>>>,
  <<2,{"X86", "X64"},0,<<165,144,0,0,0,0>>>>, <<2,{"X86", "X64"},0,<<165,118,0,0,0,0>>>>,
  <<4,{"X86", "X64"},0,<<66,65,198,26,0,0>>>>, <<2,{"X86", "X64"},0,<<111,204,0,0,0,0>>>>,
  <<4,{"X86", "X64"},0,<<66,65,67,26,0,0>>>>, <<1,{"X64"},0,<<167,0,0,0,0,0>>>>,
  <<3,{"X86", "X64"},3,<<180,46,199,0,0,0>>>>, <<3,{"X86", "X64"},2,<<189,155,88,0,0,0>>>>,
  <<3,{"X64"},2,<<189,155,88,0,0,0>>>>, <<3,{"X86", "X64"},3,<<180,155,88,0,0,0>>>>
  >>

(***************************************************************************)
(* _x86InstOSignatureData (x86inst.cpp 3174-3380):                         *)
(* <<flags, memFlags, regId>>; regId 255 (0xFF, kInvalidReg) is "any".     *)
(***************************************************************************)
_x86InstOSignatureData ==
  <<
  <<{},{},255>>, <<{"W", "GpbLo", "GpbHi", "Mem"},{"M8"},255>>,
  <<{"R", "GpbLo", "GpbHi", "I8"},{},255>>, <<{"W", "Gpw", "Mem"},{"M16"},255>>,
  <<{"R", "Gpw", "Seg", "I16"},{},255>>, <<{"W", "Gpd", "Mem"},{"M32"},255>>,
  <<{"R", "Gpd", "I32"},{},255>>, <<{"W", "Gpq", "Mem"},{"M64"},255>>,
  <<{"R", "Gpq", "Seg", "I32"},{},255>>, <<{"W", "GpbLo", "GpbHi"},{},255>>,
  <<{"R", "GpbLo", "GpbHi", "Mem", "I8"},{"M8"},255>>, <<{"W", "Gpw", "Seg"},{},255>>,
  <<{"R", "Gpw", "Mem"},{"M16"},255>>, <<{"W", "Gpd"},{},255>>,
  <<{"R", "Gpd", "Mem", "I32"},{"M32"},255>>, <<{"W", "Gpq", "Seg"},{},255>>,
  <<{"R", "Gpq", "Mem"},{"M64"},255>>, <<{"W", "Gpw"},{},255>>, <<{"R", "I16"},{},255>>,
  <<{"W", "Gpq"},{},255>>, <<{"R", "Cr", "Dr", "I64"},{},255>>, <<{"R", "Cr", "Dr"},{},255>>,
  <<{"W", "Cr", "Dr"},{},255>>, <<{"R", "Gpd"},{},255>>, <<{"R", "Gpq"},{},255>>,
  <<{"X", "GpbLo", "GpbHi", "Gpw", "Gpd", "Gpq", "Mem"},{"M8", "M16", "M32", "M64"},255>>,
  <<{"R", "I8"},{},255>>, <<{"X", "Gpw", "Mem"},{"M16"},255>>, <<{"R", "Gpw", "I16"},{},255>>,
  <<{"X", "Gpd", "Gpq", "Mem"},{"M32", "M64"},255>>, <<{"R", "I32"},{},255>>,
  <<{"X", "GpbLo", "GpbHi", "Mem"},{"M8"},255>>, <<{"R", "GpbLo", "GpbHi"},{},255>>,
  <<{"X", "Gpd", "Mem"},{"M32"},255>>, <<{"X", "Gpq", "Mem"},{"M64"},255>>,
  <<{"X", "GpbLo", "GpbHi"},{},255>>, <<{"R", "GpbLo", "GpbHi", "Mem"},{"M8"},255>>,
  <<{"X", "Gpw"},{},255>>, <<{"X", "Gpd"},{},255>>, <<{"R", "Gpd", "Mem"},{"M32"},255>>,
  <<{"X", "Gpq"},{},255>>,
  <<{"R", "GpbLo", "GpbHi", "Gpw", "Gpd", "Gpq", "Mem"},{"M8", "M16", "M32", "M64"},255>>,
  <<{"R", "Gpd", "Gpq", "Mem"},{"M32", "M64"},255>>, <<{"R", "Gpw"},{},255>>,
  <<{"X", "Implicit", "Gpw"},{},0>>, <<{"W", "Implicit", "Gpw"},{},2>>,
  <<{"W", "Implicit", "Gpd"},{},2>>, <<{"X", "Implicit", "Gpd"},{},0>>,
  <<{"W", "Implicit", "Gpq"},{},2>>, <<{"X", "Implicit", "Gpq"},{},0>>,
  <<{"R", "Gpw", "Mem", "I8", "I16"},{"M16"},255>>,
  <<{"R", "Gpd", "Mem", "I8", "I32"},{"M32"},255>>,
  <<{"R", "Gpq", "Mem", "I8", "I32"},{"M64"},255>>, <<{"R", "I8", "I16"},{},255>>,
  <<{"R", "I8", "I32"},{},255>>, <<{"R", "Mem"},{"M16"},255>>, <<{"R", "Mem"},{"M32"},255>>,
  <<{"R", "Mem"},{"M64"},255>>, <<{"W", "Mem"},{"M16"},255>>, <<{"W", "Mem"},{"M32"},255>>,
  <<{"W", "Mem"},{"M64"},255>>, <<{"W", "Mm"},{},255>>,
  <<{"R", "Gpq", "Mm", "Xmm", "Mem"},{"M64"},255>>,
  <<{"W", "Gpq", "Mm", "Xmm", "Mem"},{"M64"},255>>, <<{"R", "Mm"},{},255>>,
  <<{"R", "Xmm"},{},255>>, <<{"W", "Xmm"},{},255>>, <<{"R", "Xmm", "Mem"},{"M64"},255>>,
  <<{"W", "Xmm", "Mem"},{"M64"},255>>, <<{"R", "Xmm", "Mem"},{"M128"},255>>,
  <<{"W", "Xmm", "Mem"},{"M128"},255>>, <<{"W", "Ymm"},{},255>>,
  <<{"R", "Ymm", "Mem"},{"M256"},255>>, <<{"W", "Ymm", "Mem"},{"M256"},255>>,
  <<{"R", "Ymm"},{},255>>, <<{"W", "Zmm"},{},255>>, <<{"R", "Zmm", "Mem"},{"M512"},255>>,
  <<{"W", "Zmm", "Mem"},{"M512"},255>>, <<{"R", "Zmm"},{},255>>,
  <<{"R", "Xmm", "Mem", "I8"},{"M128"},255>>, <<{"R", "Vm"},{"Vm32x"},255>>,
  <<{"R", "Vm"},{"Vm32y"},255>>, <<{"R", "Vm"},{"Vm32z"},255>>, <<{"R", "Vm"},{"Vm64x"},255>>,
  <<{"R", "Vm"},{"Vm64y"},255>>, <<{"R", "Vm"},{"Vm64z"},255>>,
  <<{"R", "Implicit", "GpbLo"},{},0>>, <<{"R", "Implicit", "Gpw"},{},0>>,
  <<{"R", "Implicit", "Gpd"},{},0>>, <<{"R", "Implicit", "Gpq"},{},0>>,
  <<{"X", "Implicit", "Gpw"},{},2>>, <<{"X", "Implicit", "Gpd"},{},2>>,
  <<{"X", "Implicit", "Gpq"},{},2>>, <<{"R", "Vm"},{"Vm64x", "Vm64y"},255>>,
  <<{"W", "Mem"},{"M128"},255>>, <<{"W", "Mem"},{"M256"},255>>, <<{"R", "Mem"},{"M128"},255>>,
  <<{"R", "Mem"},{"M256"},255>>, <<{"R", "I4"},{},255>>, <<{"R", "Gpw", "I8"},{},255>>,
  <<{"R", "Gpd", "I8"},{},255>>, <<{"R", "Gpq", "I8"},{},255>>,
  <<{"X", "Mem"},{"M32", "M64"},255>>, <<{"X", "Fp"},{},0>>, <<{"R", "Fp"},{},255>>,
  <<{"X", "Fp"},{},255>>, <<{"R", "Fp"},{},0>>, <<{"X", "Implicit"},{},255>>,
  <<{"R", "GpbLo", "I8"},{},1>>, <<{"W", "K", "Xmm"},{},255>>, <<{"W", "K", "Ymm"},{},255>>,
  <<{"W", "K"},{},255>>, <<{"R", "Xmm", "Ymm", "Mem"},{"M64", "M128", "M256"},255>>,
  <<{"X", "Xmm"},{},255>>, <<{"X", "Ymm"},{},255>>, <<{"X", "Zmm"},{},255>>,
  <<{"W", "Mem"},{"M512"},255>>, <<{"R", "Mem"},{"M512"},255>>,
  <<{"R", "Gpq", "Xmm", "Mem"},{"M64"},255>>, <<{"W", "Mem"},{"M32", "M64"},255>>,
  <<{"R", "Mem"},{"M32", "M64"},255>>, <<{"W", "Xmm", "Mem"},{"M32"},255>>,
  <<{"W", "Xmm", "Mem"},{"M16"},255>>, <<{"R", "Xmm", "Mem"},{"M32"},255>>,
  <<{"R", "Xmm", "Mem"},{"M16"},255>>, <<{"R", "Xmm", "Mem"},{"M32", "M64"},255>>,
  <<{"R", "Xmm", "Mem"},{"M64", "M128"},255>>, <<{"W", "Vm"},{"Vm32x"},255>>,
  <<{"W", "Vm"},{"Vm32y"},255>>, <<{"W", "Vm"},{"Vm32z"},255>>, <<{"W", "Vm"},{"Vm64x"},255>>,
  <<{"W", "Vm"},{"Vm64y"},255>>, <<{"W", "Vm"},{"Vm64z"},255>>,
  <<{"X", "Gpq", "Mem", "I32", "I64", "Rel32"},{"M64"},255>>,
  <<{"R", "GpbLo", "GpbHi", "Gpw", "Gpd", "Mem"},{"M8", "M16", "M32"},255>>,
  <<{"R", "GpbLo", "GpbHi", "Gpq", "Mem"},{"M8", "M64"},255>>, <<{"X", "Gpw", "Gpd"},{},255>>,
  <<{"X", "Fp", "Mem"},{"M32", "M64"},255>>, <<{"R", "Gpw", "Gpd"},{},1>>,
  <<{"R", "Rel8"},{},255>>, <<{"R", "Gpd", "Gpq"},{},1>>,
  <<{"X", "Gpq", "Mem", "I32", "I64", "Rel8", "Rel32"},{"M64"},255>>,
  <<{"R", "GpbLo", "GpbHi", "Gpw", "Gpd", "Gpq", "K", "Mem"},{"M8"},255>>,
  <<{"W", "GpbLo", "GpbHi", "Gpw", "Gpd", "Gpq", "Mem"},{"M8"},255>>, <<{"R", "K"},{},255>>,
  <<{"R", "Gpd", "Gpq", "K", "Mem"},{"M32"},255>>, <<{"W", "Gpd", "Gpq", "Mem"},{"M32"},255>>,
  <<{"R", "Gpq", "K", "Mem"},{"M64"},255>>, <<{"R", "Gpw", "Gpd", "Gpq", "K", "Mem"},{"M16"},255>>,
  <<{"W", "Gpw", "Gpd", "Gpq", "Mem"},{"M16"},255>>, <<{"W", "Mm", "Xmm"},{},255>>,
  <<{"R", "Gpd", "Gpq", "Mem"},{"M32"},255>>, <<{"R", "Mm", "Xmm"},{},255>>,
  <<{"W", "Gpw", "Gpd", "Gpq"},{},255>>, <<{"W", "Gpd", "Gpq"},{},255>>,
  <<{"R", "Implicit", "Gpd"},{},2>>, <<{"R", "Implicit", "Gpq"},{},2>>,
  <<{"R", "Gpw", "Gpd", "Mem"},{"M16", "M32"},255>>, <<{"X", "Mm"},{},255>>,
  <<{"R", "Mm", "Mem"},{"M64"},255>>, <<{"W", "Gpw", "Gpq", "Mem"},{"M16", "M64"},255>>,
  <<{"R", "Mm", "Mem", "I8"},{"M64"},255>>,
  <<{"X", "Gpw", "Gpq", "Mem", "I8", "I16", "I32"},{"M16", "M64"},255>>, <<{"X", "I16"},{},255>>,
  <<{"R", "Xmm", "Ymm", "Mem"},{"M128", "M256"},255>>, <<{"W", "Xmm", "Ymm", "Zmm"},{},255>>,
  <<{"R", "Xmm", "Mem"},{"M8"},255>>, <<{"R", "Gpd", "Gpq"},{},255>>,
  <<{"R", "GpbLo", "GpbHi", "Gpw", "Gpd", "Gpq", "Mem"},{"M8"},255>>,
  <<{"R", "Xmm", "I8"},{},255>>, <<{"W", "Vm"},{"Vm64x", "Vm64y"},255>>,
  <<{"R", "Xmm", "Ymm"},{},255>>, <<{"R", "Implicit", "Xmm"},{},0>>,
  <<{"X", "Gpd", "Gpq"},{},255>>, <<{"R", "Mem"},{"Any"},255>>, <<{"R", "Implicit"},{},255>>,
  <<{"X", "Mem"},{"M128"},255>>, <<{"R", "Implicit", "Gpq"},{},1>>,
  <<{"R", "Implicit", "Gpq"},{},3>>, <<{"X", "Mem"},{"M64"},255>>,
  <<{"R", "Implicit", "Gpd"},{},1>>, <<{"R", "Implicit", "Gpd"},{},3>>,
  <<{"W", "Implicit", "Gpd"},{},3>>, <<{"X", "Implicit", "Gpd"},{},1>>,
  <<{"X", "Mem"},{"M80"},255>>, <<{"X", "Mem"},{"M16", "M32"},255>>,
  <<{"X", "Mem"},{"M16", "M32", "M64"},255>>, <<{"X", "Fp", "Mem"},{"M32", "M64", "M80"},255>>,
  <<{"X", "Mem"},{"M16"},255>>, <<{"X", "Mem"},{"Any"},255>>, <<{"X", "Gpw", "Mem"},{"M16"},0>>,
  <<{"X", "I8"},{},255>>, <<{"X", "Rel8", "Rel32"},{},255>>, <<{"X", "Rel8"},{},255>>,
  <<{"W", "Implicit", "GpbHi"},{},0>>, <<{"W", "Implicit", "Gpd"},{},1>>,
  <<{"W", "Implicit", "Xmm"},{},0>>, <<{"X", "Mm", "Xmm"},{},255>>,
  <<{"R", "Gpw", "Gpd", "Gpq", "Mem"},{"M16"},255>>, <<{"W", "Implicit", "Gpd"},{},0>>,
  <<{"R", "Implicit", "GpbHi"},{},0>>, <<{"W", "Ymm", "Zmm"},{},255>>,
  <<{"R", "Ymm", "Zmm"},{},255>>,
  <<{"R", "Xmm", "Ymm", "Zmm", "Mem"},{"M128", "M256", "M512"},255>>,
  <<{"R", "Xmm", "Ymm", "Zmm"},{},255>>
  >>

(***************************************************************************)
(* Constants of the name index.                                            *)
(***************************************************************************)
kX86InstMaxLength == 16

kX86InstAlphaIndexFirst == 97

kX86InstAlphaIndexLast == 122

kX86InstAlphaIndexInvalid == 65535

\* X86Inst::_kIdCount: the number of rows of instData.
kIdCount == Len(instData)

\* kInvalidInst, the id of the "none" row (globals.h, not in src/).
kInvalidInst == 0

\* kInvalidIndex is ~size_t(0) (globals.h, not in src/).  The model's size_t
\* is 31 bits wide: no length or index of the model comes near it.
kInvalidIndex == 2147483647

\* The outcome of a read that runs off both the name blob and the stack
\* buffer: the process faults instead of returning an id.
MemFault == -1

(***************************************************************************)
(* Accessors of the tables.                                                *)
(***************************************************************************)
getEncodingType(id) == instData[id + 1][1]

getNameDataIndex(id) == instData[id + 1][2]

getCommonData(id) == commonData[instData[id + 1][3] + 1]

RECURSIVE CStr(_, _)
\* The NUL-terminated string that starts at offset off of nameData.
CStr(off, acc) ==
  IF off >= Len(nameData) \/ nameData[off + 1] = 0
    THEN acc
    ELSE CStr(off + 1, Append(acc, nameData[off + 1]))

\* X86Inst::getName(): nameData + _nameDataIndex.
getName(id) == CStr(getNameDataIndex(id), <<>>)

\* Utils::toLower (utils.h, not in src/): folds 'A'..'Z' to 'a'..'z'.
toLower(c) == IF c >= 65 /\ c <= 90 THEN c + 32 ELSE c

(***************************************************************************)
(* X86Inst::getIdByName.                                                   *)
(*                                                                         *)
(* A name argument is [null, bytes]: a null pointer, or a C string whose   *)
(* bytes (all non-zero) are followed by a NUL.  nameLower is modelled by   *)
(* the tuple of the bytes stored so far; a read of a byte of nameLower     *)
(* that was never stored, inside the array or past its end, yields the     *)
(* call's uninitialized byte g.                                            *)
(***************************************************************************)
NameByte(name, i) == IF i < Len(name.bytes) THEN name.bytes[i + 1] ELSE 0

RECURSIVE FoldNulTerminated(_, _, _)
\* The len == kInvalidIndex loop: [ok, buf]; ok is FALSE when the loop
\* returns kInvalidInst.  The test is i > kX86InstMaxLength, made before
\* the store to nameLower[i].
FoldNulTerminated(name, i, buf) ==
  LET c == toLower(NameByte(name, i))
  IN  IF c = 0 THEN [ok |-> TRUE, buf |-> buf]
      ELSE IF i > kX86InstMaxLength THEN [ok |-> FALSE, buf |-> buf]
      ELSE FoldNulTerminated(name, i + 1, Append(buf, c))

\* The explicit-length loop without the fold.
FoldExplicit_NoFold(name, len) ==
  IF len > kX86InstMaxLength
    THEN [ok |-> FALSE, buf |-> <<>>]
    ELSE [ok |-> TRUE, buf |-> [i \in 1..len |-> NameByte(name, i - 1)]]

\* The explicit-length loop.
FoldExplicit(name, len) ==
  IF len > kX86InstMaxLength
    THEN [ok |-> FALSE, buf |-> <<>>]
    ELSE [ok |-> TRUE, buf |-> [i \in 1..len |-> toLower(NameByte(name, i - 1))]]

FoldName(name, len) ==
  IF len = kInvalidIndex THEN FoldNulTerminated(name, 0, <<>>)
                         ELSE FoldExplicit(name, len)

BufByte(buf, i, g) == IF i < Len(buf) THEN buf[i + 1] ELSE g

\* A read of nameData[k]; past the end of the array it is the byte g.
BlobByte(k, g) == IF k < Len(nameData) THEN nameData[k + 1] ELSE g

RECURSIVE compareNameFrom(_, _, _, _, _)
compareNameFrom(a, buf, len, g, i) ==
  IF i >= len THEN BlobByte(a + len, g)
  ELSE IF a + i >= Len(nameData) /\ i >= kX86InstMaxLength THEN MemFault * 1000
  ELSE LET c == BlobByte(a + i, g) - BufByte(buf, i, g)
       IN  IF c # 0 THEN c ELSE compareNameFrom(a, buf, len, g, i + 1)

\* X86Inst_compareName(a, b, len): a is an offset into nameData, b the
\* lowercase buffer.  The result is the first byte difference, else a[len];
\* MemFault * 1000 stands for a scan that left both arrays.
X86Inst_compareName(a, buf, len, g) == compareNameFrom(a, buf, len, g, 0)

IsFault(r) == r = MemFault * 1000

RECURSIVE LinearSearch(_, _, _, _, _)
LinearSearch(base, end, buf, len, g) ==
  IF base = end THEN kInvalidInst
  ELSE LET r == X86Inst_compareName(getNameDataIndex(base), buf, len, g)
       IN  IF IsFault(r) THEN MemFault
           ELSE IF r = 0 THEN base
           ELSE LinearSearch(base + 1, end, buf, len, g)

RECURSIVE BinarySearch(_, _, _, _, _)
BinarySearch(base, lim, buf, len, g) ==
  IF lim = 0 THEN kInvalidInst
  ELSE LET cur == base + (lim \div 2)
           r   == X86Inst_compareName(getNameDataIndex(cur), buf, len, g)
       IN  IF IsFault(r) THEN MemFault
           ELSE IF r < 0 THEN BinarySearch(cur + 1, (lim - 1) \div 2, buf, len, g)
           ELSE IF r > 0 THEN BinarySearch(base, lim \div 2, buf, len, g)
           ELSE cur

RECURSIVE SliceEnd(_)
\* The "limit the search" loop: the first used letter after prefix gives
\* the end of the slice, kIdCount when there is none.
SliceEnd(prefix) ==
  IF prefix + 1 > kX86InstAlphaIndexLast - kX86InstAlphaIndexFirst THEN kIdCount
  ELSE IF _x86InstAlphaIndex[prefix + 2] = kX86InstAlphaIndexInvalid
    THEN SliceEnd(prefix + 1)
    ELSE _x86InstAlphaIndex[prefix + 2]

\* The search with the letter's index returned for a letter without
\* instructions.
SearchName_ReturnsIndex(buf, len, g) ==
  LET prefix == BufByte(buf, 0, g) - kX86InstAlphaIndexFirst
  IN  IF prefix < 0 \/ prefix > kX86InstAlphaIndexLast - kX86InstAlphaIndexFirst
        THEN kInvalidInst
      ELSE LET index == _x86InstAlphaIndex[prefix + 1]
           IN  IF index = kX86InstAlphaIndexInvalid THEN index
               ELSE IF prefix = 106 - kX86InstAlphaIndexFirst
                 THEN LinearSearch(index, SliceEnd(prefix), buf, len, g)
                 ELSE BinarySearch(index, SliceEnd(prefix) - index, buf, len, g)

\* The search proper, from the computation of prefix on.
SearchName(buf, len, g) ==
  LET prefix == BufByte(buf, 0, g) - kX86InstAlphaIndexFirst
  IN  IF prefix < 0 \/ prefix > kX86InstAlphaIndexLast - kX86InstAlphaIndexFirst
        THEN kInvalidInst
      ELSE LET index == _x86InstAlphaIndex[prefix + 1]
           IN  IF index = kX86InstAlphaIndexInvalid THEN kInvalidInst
               ELSE IF prefix = 106 - kX86InstAlphaIndexFirst
                 THEN LinearSearch(index, SliceEnd(prefix), buf, len, g)
                 ELSE BinarySearch(index, SliceEnd(prefix) - index, buf, len, g)

\* getIdByName(name, len) with g the value of nameLower's unwritten bytes:
\* [id, stored], stored being the number of bytes stored into nameLower
\* (they go to nameLower[0 .. stored-1]).
getIdByName(name, len, g) ==
  IF name.null THEN [id |-> kInvalidInst, stored |-> 0]
  ELSE LET f == FoldName(name, len)
       IN  IF ~f.ok THEN [id |-> kInvalidInst, stored |-> Len(f.buf)]
           ELSE IF len = 0 THEN [id |-> kInvalidInst, stored |-> 0]
           ELSE [id |-> SearchName(f.buf, len, g), stored |-> Len(f.buf)]

(***************************************************************************)
(* Operands.  Operand_::getOp() is "None", "Reg", "Mem", "Imm" or "Label"; *)
(* "Other" is any other operand tag.  A register has a register type and   *)
(* an id, a memory operand a size and the types of its base and index (0:  *)
(* none) with their ids, an immediate a value.                             *)
(***************************************************************************)
Operand(op, regType, id, size, baseType, indexType, val) ==
  [op |-> op, regType |-> regType, id |-> id, size |-> size,
   baseType |-> baseType, indexType |-> indexType, val |-> val,
   baseId |-> 0, indexId |-> 0]

NoOperand == Operand("None", 0, 0, 0, 0, 0, 0)

Reg(regType, id) == Operand("Reg", regType, id, 0, 0, 0, 0)

Mem(size, baseType, indexType) == Operand("Mem", 0, 0, size, baseType, indexType, 0)

\* A memory operand with the ids of its base and index registers.
MemIds(size, baseType, baseId, indexType, indexId) ==
  [Mem(size, baseType, indexType) EXCEPT !.baseId = baseId, !.indexId = indexId]

Imm(val) == Operand("Imm", 0, 0, 0, 0, 0, val)

LabelOp(id) == Operand("Label", 0, id, 0, 0, 0, 0)

OtherOperand == Operand("Other", 0, 0, 0, 0, 0, 0)

(***************************************************************************)
(* X86Reg register types, as numbered by _x86OpFlagFromRegType.            *)
(***************************************************************************)
kRegRip == 2

kRegSeg == 3

kRegGpbLo == 4

kRegGpbHi == 5

kRegGpw == 6

kRegGpd == 7

kRegGpq == 8

kRegFp == 9

kRegMm == 10

kRegK == 11

kRegXmm == 12

kRegYmm == 13

kRegZmm == 14

kRegBnd == 16

kRegCr == 17

kRegDr == 18

\* Label::kLabelTag (operand.h, not in src/): the base "type" of a memory
\* operand whose base is a label.
kLabelTag == 1

\* kInvalidReg: no register id; the "any register" id of a signature row.
kInvalidReg == 255

\* Operand::kPackedIdMin (operand.h, not in src/): ids from here on are
\* virtual registers.
kPackedIdMin == 256

\* ArchInfo types (arch.h, not in src/).
kTypeNone == 0

kTypeX86 == 1

kTypeX64 == 2

kTypeX32 == 3

kTypeArm32 == 4

\* ArchInfo::isX86Family (arch.h, not in src/).
isX86Family(archType) == archType >= kTypeX86 /\ archType <= kTypeX32

_x86OpFlagFromRegType ==
  << {},         \* #00 None.
     {},         \* #01 Reserved.
     {},         \* #02 RIP.
     {"Seg"},    \* #03 SEG.
     {"GpbLo"},  \* #04 GPB-LO.
     {"GpbHi"},  \* #05 GPB-HI.
     {"Gpw"},    \* #06 GPW.
     {"Gpd"},    \* #07 GPD.
     {"Gpq"},    \* #08 GPQ.
     {"Fp"},     \* #09 FP.
     {"Mm"},     \* #10 MM.
     {"K"},      \* #11 K.
     {"Xmm"},    \* #12 XMM.
     {"Ymm"},    \* #13 YMM.
     {"Zmm"},    \* #14 ZMM.
     {},         \* #15 FUTURE.
     {"Bnd"},    \* #16 BND.
     {"Cr"},     \* #17 CR.
     {"Dr"} >>   \* #18 DR.

\* X86Reg::kRegCount.
kRegCount == Len(_x86OpFlagFromRegType)

_x86ValidationData ==
  [ allowedRegMask |->
      << {},      \* #00 None      0x00000000
         {},      \* #01 Reserved  0x00000000
         {0},     \* #02 RIP       0x00000001
         1..6,    \* #03 SEG       0x0000007E (ES|CS|SS|DS|FS|GS)
         0..3,    \* #04 GPB-LO    0x0000000F
         0..3,    \* #05 GPB-HI    0x0000000F
         0..7,    \* #06 GPW       0x000000FF
         0..7,    \* #07 GPD       0x000000FF
         0..7,    \* #08 GPQ       0x000000FF
         0..7,    \* #09 FP        0x000000FF
         0..7,    \* #10 MM        0x000000FF
         0..7,    \* #11 K         0x000000FF
         0..7,    \* #12 XMM       0x000000FF
         0..7,    \* #13 YMM       0x000000FF
         0..7,    \* #14 ZMM       0x000000FF
         {},      \* #15 FUTURE    0x00000000
         0..3,    \* #16 BND       0x0000000F
         0..7,    \* #17 CR        0x000000FF
         0..7 >>, \* #18 DR        0x000000FF
    allowedMemBaseRegs |-> {kRegGpw, kRegGpd, kRegRip, kLabelTag},
    allowedMemIndexRegs |-> {kRegGpw, kRegGpd, kRegXmm, kRegYmm, kRegZmm} ]

_x64ValidationData ==
  [ allowedRegMask |->
      << {},      \* #00 None      0x00000000
         {},      \* #01 Reserved  0x00000000
         {0},     \* #02 RIP       0x00000001
         5..6,    \* #03 SEG       0x00000060 (FS|GS)
         0..15,   \* #04 GPB-LO    0x0000FFFF
         0..3,    \* #05 GPB-HI    0x0000000F
         0..15,   \* #06 GPW       0x0000FFFF
         0..15,   \* #07 GPD       0x0000FFFF
         0..15,   \* #08 GPQ       0x0000FFFF
         0..7,    \* #09 FP        0x000000FF
         0..7,    \* #10 MM        0x000000FF
         0..7,    \* #11 K         0x000000FF
         0..31,   \* #12 XMM       0xFFFFFFFF
         0..31,   \* #13 YMM       0xFFFFFFFF
         0..31,   \* #14 ZMM       0xFFFFFFFF
         {},      \* #15 FUTURE    0x00000000
         0..3,    \* #16 BND       0x0000000F
         0..8,    \* #17 CR        0x000001FF
         0..7 >>, \* #18 DR        0x000000FF
    allowedMemBaseRegs |-> {kRegGpd, kRegGpq, kRegRip, kLabelTag},
    allowedMemIndexRegs |-> {kRegGpd, kRegGpq, kRegXmm, kRegYmm, kRegZmm} ]

\* The rows read with every row open to both architectures.
ISignature_AnyArch(k) ==
  LET r == _x86InstISignatureData[k + 1]
  IN  [opCount |-> r[1], archMask |-> {"X86", "X64"}, implicit |-> r[3], operands |-> r[4]]

(***************************************************************************)
(* Rows of the signature tables, as records.                               *)
(***************************************************************************)
ISignature(k) ==
  LET r == _x86InstISignatureData[k + 1]
  IN  [opCount |-> r[1], archMask |-> r[2], implicit |-> r[3], operands |-> r[4]]

\* The rows read without the Gpd flag.
OSignature_WithoutGpd(k) ==
  LET r == _x86InstOSignatureData[k + 1]
  IN  [flags |-> r[1] \ {"Gpd"}, memFlags |-> r[2], regId |-> r[3]]

OSignature(k) ==
  LET r == _x86InstOSignatureData[k + 1]
  IN  [flags |-> r[1], memFlags |-> r[2], regId |-> r[3]]

hasFlag(commonRow, flag) == flag \in commonRow[1]

\* x86::isK, x86::isZmm (x86operand.h, not in src/).
isK(op) == op.op = "Reg" /\ op.regType = kRegK

isZmm(op) == op.op = "Reg" /\ op.regType = kRegZmm

(***************************************************************************)
(* X86Inst::validate, operand translation (the body of the for loop).      *)
(* The result is [err, flags, memFlags, regId, regMask]: the translated    *)
(* OSignature and the operand's contribution to combinedRegMask.           *)
(***************************************************************************)
Translated(err, flags, memFlags, regId, regMask) ==
  [err |-> err, flags |-> flags, memFlags |-> memFlags, regId |-> regId,
   regMask |-> regMask]

TranslateFailed(err) == Translated(err, {}, {}, kInvalidReg, {})

AllMemSizes ==
  {"M8", "M16", "M32", "M64", "M80", "M128", "M256", "M512", "M1024", "Any"}

\* TranslateReg without the test against allowedRegMask.
TranslateReg_NoMaskCheck(vd, op) ==
  IF op.regType >= kRegCount THEN TranslateFailed("kErrorInvalidRegType")
  ELSE LET opFlags == _x86OpFlagFromRegType[op.regType + 1]
       IN  IF opFlags = {} THEN TranslateFailed("kErrorInvalidRegType")
           ELSE IF op.id < kPackedIdMin
             THEN IF op.id >= 32 THEN TranslateFailed("kErrorInvalidPhysId")
                  ELSE Translated("kErrorOk", opFlags, {}, op.id % 256, {op.id})
             ELSE Translated("kErrorOk", opFlags, {}, op.id % 256, {})

TranslateReg(vd, op) ==
  IF op.regType >= kRegCount THEN TranslateFailed("kErrorInvalidRegType")
  ELSE LET opFlags == _x86OpFlagFromRegType[op.regType + 1]
       IN  IF opFlags = {} THEN TranslateFailed("kErrorInvalidRegType")
           ELSE IF op.id < kPackedIdMin
             THEN IF op.id >= 32 THEN TranslateFailed("kErrorInvalidPhysId")
                  ELSE IF op.id \notin vd.allowedRegMask[op.regType + 1]
                    THEN TranslateFailed("kErrorInvalidPhysId")
                    ELSE Translated("kErrorOk", opFlags, {}, op.id % 256, {op.id})
             ELSE Translated("kErrorOk", opFlags, {}, op.id % 256, {})

\* The translation of a memory operand with the id of its base register
\* added to the combined register mask.
TranslateMem_CombinesBase(vd, op) ==
  IF op.baseType # 0 /\ op.baseType \notin vd.allowedMemBaseRegs
    THEN TranslateFailed("kErrorInvalidAddress")
  ELSE IF op.indexType # 0
    THEN IF op.indexType \notin vd.allowedMemIndexRegs
           THEN TranslateFailed("kErrorInvalidAddress")
         ELSE IF op.indexType = kRegXmm
           THEN Translated("kErrorOk", {"Vm"}, {"Vm32x", "Vm64x"}, kInvalidReg, {op.baseId})
         ELSE IF op.indexType = kRegYmm
           THEN Translated("kErrorOk", {"Vm"}, {"Vm32y", "Vm64y"}, kInvalidReg, {op.baseId})
         ELSE IF op.indexType = kRegZmm
           THEN Translated("kErrorOk", {"Vm"}, {"Vm32z", "Vm64z"}, kInvalidReg, {op.baseId})
         ELSE Translated("kErrorOk", {"Mem"}, {}, kInvalidReg, {op.baseId})
    ELSE Translated("kErrorOk", {"Mem"}, AllMemSizes, kInvalidReg, {op.baseId})

TranslateMem(vd, op) ==
  IF op.baseType # 0 /\ op.baseType \notin vd.allowedMemBaseRegs
    THEN TranslateFailed("kErrorInvalidAddress")
  ELSE IF op.indexType # 0
    THEN IF op.indexType \notin vd.allowedMemIndexRegs
           THEN TranslateFailed("kErrorInvalidAddress")
         ELSE IF op.indexType = kRegXmm
           THEN Translated("kErrorOk", {"Vm"}, {"Vm32x", "Vm64x"}, kInvalidReg, {})
         ELSE IF op.indexType = kRegYmm
           THEN Translated("kErrorOk", {"Vm"}, {"Vm32y", "Vm64y"}, kInvalidReg, {})
         ELSE IF op.indexType = kRegZmm
           THEN Translated("kErrorOk", {"Vm"}, {"Vm32z", "Vm64z"}, kInvalidReg, {})
         ELSE Translated("kErrorOk", {"Mem"}, {}, kInvalidReg, {})
    ELSE Translated("kErrorOk", {"Mem"}, AllMemSizes, kInvalidReg, {})

\* The translation with an immediate given the widths its value fits.
TranslateOperand_ImmByValue(vd, op) ==
  CASE op.op = "Reg" -> TranslateReg(vd, op)
    [] op.op = "Mem" -> TranslateMem(vd, op)
    [] op.op = "Imm" ->
         Translated("kErrorOk",
                    IF op.val >= 0 - 128 /\ op.val <= 127
                      THEN {"I4", "I8", "I16", "I32", "I64"}
                      ELSE {"I16", "I32", "I64"},
                    {}, kInvalidReg, {})
    [] op.op = "Label" ->
         Translated("kErrorOk", {"Rel8", "Rel32"}, {}, kInvalidReg, {})
    [] OTHER -> TranslateFailed("kErrorInvalidState")

TranslateOperand(vd, op) ==
  CASE op.op = "Reg" -> TranslateReg(vd, op)
    [] op.op = "Mem" -> TranslateMem(vd, op)
    [] op.op = "Imm" ->
         Translated("kErrorOk", {"I4", "I8", "I16", "I32", "I64"}, {}, kInvalidReg, {})
    [] op.op = "Label" ->
         Translated("kErrorOk", {"Rel8", "Rel32"}, {}, kInvalidReg, {})
    [] OTHER -> TranslateFailed("kErrorInvalidState")

RECURSIVE TranslateFrom(_, _, _, _, _)
\* The for loop from index i on.  acc is [err, i, oSigTranslated,
\* combinedOpFlags, combinedRegMask, memOp]; memOp is the last memory
\* operand seen (NoOperand: the null pointer).
TranslateFrom(vd, opArray, opCount, i, acc) ==
  IF i >= opCount \/ opArray[i + 1].op = "None" THEN [acc EXCEPT !.i = i]
  ELSE LET op  == opArray[i + 1]
           t   == TranslateOperand(vd, op)
           mem == IF op.op = "Mem" THEN op ELSE acc.memOp
       IN  IF t.err # "kErrorOk"
             THEN [acc EXCEPT !.err = t.err, !.i = i, !.memOp = mem]
             ELSE TranslateFrom(vd, opArray, opCount, i + 1,
                    [acc EXCEPT
                       !.oSigTranslated =
                          Append(@, [flags |-> t.flags, memFlags |-> t.memFlags,
                                     regId |-> t.regId]),
                       !.combinedOpFlags = @ \cup t.flags,
                       !.combinedRegMask = @ \cup t.regMask,
                       !.memOp = mem])

TranslateOperands(vd, opArray, opCount) ==
  TranslateFrom(vd, opArray, opCount, 0,
    [err |-> "kErrorOk", i |-> 0, oSigTranslated |-> <<>>,
     combinedOpFlags |-> {}, combinedRegMask |-> {}, memOp |-> NoOperand])

\* The gap check left out.
HasGap_Never(opArray, opCount, i) == FALSE

\* The gap check: with i the index of the first none operand, every
\* operand of opArray[i+1 .. opCount-1] must be none.
HasGap(opArray, opCount, i) ==
  i < opCount /\ \E k \in (i + 1)..(opCount - 1) : opArray[k + 1].op # "None"

(***************************************************************************)
(* X86Inst::validate, the signature scan.                                  *)
(***************************************************************************)
\* The tests on one operand without the test of the register id.
OperandMatches_AnyRegId(oChk, oRef) ==
  /\ (oRef.flags \cap oChk.flags) # {}
  /\ ~((oRef.memFlags \cap oChk.memFlags) = {} /\ oChk.memFlags # {})

\* The three tests made on one translated operand against one reference.
OperandMatches(oChk, oRef) ==
  /\ (oRef.flags \cap oChk.flags) # {}
  /\ ~((oRef.memFlags \cap oChk.memFlags) = {} /\ oChk.memFlags # {})
  /\ ~(oRef.regId # kInvalidReg /\ oChk.regId # kInvalidReg /\ oRef.regId # oChk.regId)

\* iCount == opCount: every position compared.
ExactMatch(iSig, oSig, opCount) ==
  \A j \in 0..(opCount - 1) :
    OperandMatches(oSig[j + 1], OSignature(iSig.operands[j + 1]))

RECURSIVE ImplicitFrom(_, _, _, _, _)
\* iCount - implicit == opCount: the loop over j and r with its "Next"
\* label; the value is j == opCount at the loop's exit.
ImplicitFrom(iSig, oSig, opCount, j, r) ==
  IF ~(j < opCount /\ r < iSig.opCount) THEN j = opCount
  ELSE LET oRef == OSignature(iSig.operands[r + 1])
       IN  IF "Implicit" \in oRef.flags
             THEN IF r + 1 >= iSig.opCount
                    THEN j = opCount
                    ELSE ImplicitFrom(iSig, oSig, opCount, j, r + 1)
             ELSE IF OperandMatches(oSig[j + 1], oRef)
                    THEN ImplicitFrom(iSig, oSig, opCount, j + 1, r + 1)
                    ELSE j = opCount

\* The implicit-operand path comparing position by position.
ImplicitMatch_Positional(iSig, oSig, opCount) ==
  \A j \in 0..(opCount - 1) :
    OperandMatches(oSig[j + 1], OSignature(iSig.operands[j + 1]))

ImplicitMatch(iSig, oSig, opCount) == ImplicitFrom(iSig, oSig, opCount, 0, 0)

\* The scan with the architecture test of each row left out.
RowMatches_AnyArch(iSig, archMask, oSig, opCount) ==
  IF iSig.opCount = opCount THEN ExactMatch(iSig, oSig, opCount)
  ELSE IF iSig.opCount - iSig.implicit = opCount THEN ImplicitMatch(iSig, oSig, opCount)
  ELSE FALSE

\* One turn of the do-while loop: does row iSig stop the scan?
RowMatches(iSig, archMask, oSig, opCount) ==
  IF archMask \notin iSig.archMask THEN FALSE
  ELSE IF iSig.opCount = opCount THEN ExactMatch(iSig, oSig, opCount)
  ELSE IF iSig.opCount - iSig.implicit = opCount THEN ImplicitMatch(iSig, oSig, opCount)
  ELSE FALSE

\* The scan ending on the group's last row, not past it, when no row matched.
ScanFrom_EndsOnLastRow(iSig, iEnd, archMask, oSig, opCount) ==
  LET hits == { k \in iSig..(iEnd - 1) : RowMatches(ISignature(k), archMask, oSig, opCount) }
  IN  IF hits # {} THEN CHOOSE k \in hits : \A h \in hits : k <= h
      ELSE IF iSig = iEnd THEN iEnd ELSE iEnd - 1

\* The scan trying the group's first row only.
ScanFrom_FirstRowOnly(iSig, iEnd, archMask, oSig, opCount) ==
  IF iSig # iEnd /\ RowMatches(ISignature(iSig), archMask, oSig, opCount) THEN iSig ELSE iEnd

RECURSIVE ScanFrom(_, _, _, _, _)
\* The value of iSig when the do-while loop ends: the first matching row,
\* or iEnd.
ScanFrom(iSig, iEnd, archMask, oSig, opCount) ==
  IF iSig = iEnd THEN iEnd
  ELSE IF RowMatches(ISignature(iSig), archMask, oSig, opCount) THEN iSig
  ELSE ScanFrom(iSig + 1, iEnd, archMask, oSig, opCount)

(***************************************************************************)
(* X86Inst::validate, the AVX-512 option checks.                           *)
(***************************************************************************)
kAvx512Options == {"K", "1ToX", "KZ", "SAE", "ER"}

\* The {k} checks with the instruction's flag tested before the register.
ValidateMask_UseBeforeReg(options, opExtra, cd) ==
  IF (options \cap {"K", "KZ"}) = {} THEN "kErrorOk"
  ELSE IF "K" \notin options THEN "kErrorInvalidKZeroUse"
  ELSE IF ~hasFlag(cd, "EvexK_") THEN "kErrorInvalidKMaskUse"
  ELSE IF ~isK(opExtra) THEN "kErrorInvalidKMaskReg"
  ELSE IF "KZ" \in options /\ ~hasFlag(cd, "EvexKZ") THEN "kErrorInvalidKZeroUse"
  ELSE "kErrorOk"

\* The {k} and {z} checks entered on any option that is not 1ToX, SAE or ER.
ValidateMask_AnyOtherOption(options, opExtra, cd) ==
  IF (options \ {"1ToX", "SAE", "ER"}) = {} THEN "kErrorOk"
  ELSE IF "K" \notin options THEN "kErrorInvalidKZeroUse"
  ELSE IF ~isK(opExtra) THEN "kErrorInvalidKMaskReg"
  ELSE IF ~hasFlag(cd, "EvexK_") THEN "kErrorInvalidKMaskUse"
  ELSE IF "KZ" \in options /\ ~hasFlag(cd, "EvexKZ") THEN "kErrorInvalidKZeroUse"
  ELSE "kErrorOk"

ValidateMask(options, opExtra, cd) ==
  IF (options \cap {"K", "KZ"}) = {} THEN "kErrorOk"
  ELSE IF "K" \notin options THEN "kErrorInvalidKZeroUse"
  ELSE IF ~isK(opExtra) THEN "kErrorInvalidKMaskReg"
  ELSE IF ~hasFlag(cd, "EvexK_") THEN "kErrorInvalidKMaskUse"
  ELSE IF "KZ" \in options /\ ~hasFlag(cd, "EvexKZ") THEN "kErrorInvalidKZeroUse"
  ELSE "kErrorOk"

\* The broadcast check without the test of the element size.
ValidateBroadcast_AnySize(options, cd, memOp) ==
  IF "1ToX" \notin options THEN "kErrorOk"
  ELSE IF memOp.op # "Mem" THEN "kErrorInvalidBroadcast"
  ELSE "kErrorOk"

ValidateBroadcast(options, cd, memOp) ==
  IF "1ToX" \notin options THEN "kErrorOk"
  ELSE IF memOp.op # "Mem" THEN "kErrorInvalidBroadcast"
  ELSE IF memOp.size # 0 /\ hasFlag(cd, "EvexB4") /\ memOp.size # 4
    THEN "kErrorInvalidBroadcast"
  ELSE IF memOp.size # 0 /\ hasFlag(cd, "EvexB8") /\ memOp.size # 8
    THEN "kErrorInvalidBroadcast"
  ELSE "kErrorOk"

\* The {sae} / {er} checks with EvexSAE required whenever SAE is set.
ValidateSaeEr_SaeConsulted(options, cd, memOp, opArray) ==
  IF (options \cap {"SAE", "ER"}) = {} THEN "kErrorOk"
  ELSE IF memOp.op = "Mem" THEN "kErrorInvalidSAEOrER"
  ELSE IF "SAE" \in options /\ ~hasFlag(cd, "EvexSAE") THEN "kErrorInvalidSAEOrER"
  ELSE IF "ER" \in options
    THEN IF ~hasFlag(cd, "EvexER") THEN "kErrorInvalidSAEOrER"
         ELSE IF (cd[1] \cap {"EvexB4", "EvexB8"}) # {}
                 /\ ~isZmm(opArray[1]) /\ ~isZmm(opArray[2])
           THEN "kErrorInvalidSAEOrER"
         ELSE "kErrorOk"
    ELSE "kErrorOk"

\* The {sae} / {er} checks with the ZMM register looked for in operand 0 only.
ValidateSaeEr_FirstOperandOnly(options, cd, memOp, opArray) ==
  IF (options \cap {"SAE", "ER"}) = {} THEN "kErrorOk"
  ELSE IF memOp.op = "Mem" THEN "kErrorInvalidSAEOrER"
  ELSE IF "ER" \in options
    THEN IF ~hasFlag(cd, "EvexER") THEN "kErrorInvalidSAEOrER"
         ELSE IF (cd[1] \cap {"EvexB4", "EvexB8"}) # {} /\ ~isZmm(opArray[1])
           THEN "kErrorInvalidSAEOrER"
         ELSE "kErrorOk"
    ELSE IF ~hasFlag(cd, "EvexSAE") THEN "kErrorInvalidSAEOrER" ELSE "kErrorOk"

ValidateSaeEr(options, cd, memOp, opArray) ==
  IF (options \cap {"SAE", "ER"}) = {} THEN "kErrorOk"
  ELSE IF memOp.op = "Mem" THEN "kErrorInvalidSAEOrER"
  ELSE IF "ER" \in options
    THEN IF ~hasFlag(cd, "EvexER") THEN "kErrorInvalidSAEOrER"
         ELSE IF (cd[1] \cap {"EvexB4", "EvexB8"}) # {}
                 /\ ~isZmm(opArray[1]) /\ ~isZmm(opArray[2])
           THEN "kErrorInvalidSAEOrER"
         ELSE "kErrorOk"
    ELSE IF ~hasFlag(cd, "EvexSAE") THEN "kErrorInvalidSAEOrER" ELSE "kErrorOk"

\* The option checks with the broadcast check made before the mask checks.
ValidateOptions_BroadcastFirst(options, opExtra, cd, memOp, opArray) ==
  IF (options \cap kAvx512Options) = {} THEN "kErrorOk"
  ELSE LET m == ValidateMask(options, opExtra, cd)
           b == ValidateBroadcast(options, cd, memOp)
       IN  IF b # "kErrorOk" THEN b
           ELSE IF m # "kErrorOk" THEN m
           ELSE ValidateSaeEr(options, cd, memOp, opArray)

ValidateOptions(options, opExtra, cd, memOp, opArray) ==
  IF (options \cap kAvx512Options) = {} THEN "kErrorOk"
  ELSE LET m == ValidateMask(options, opExtra, cd)
           b == ValidateBroadcast(options, cd, memOp)
       IN  IF m # "kErrorOk" THEN m
           ELSE IF b # "kErrorOk" THEN b
           ELSE ValidateSaeEr(options, cd, memOp, opArray)

(***************************************************************************)
(* X86Inst::validate.  The result records the error code and what the      *)
(* call computed on the way: phase is the part of the function that        *)
(* returned, i the value of the loop variable i when the translation loop  *)
(* was left (the index of the operand that failed to translate, else the   *)
(* operand count without the trailing none operands), row the signature    *)
(* row that matched (-1: the scan found none, or was not made), rows the   *)
(* size of the instruction's signature group.                              *)
(***************************************************************************)
Result(err, phase, i, flags, mask, row, rows) ==
  [err |-> err, phase |-> phase, i |-> i, combinedOpFlags |-> flags,
   combinedRegMask |-> mask, row |-> row, rows |-> rows]

Early(err, phase) == Result(err, phase, 0, {}, {}, 0 - 1, 0)

\* The architecture checks without the x86 one.
ArchChecks_NoGpq(archMask, t) ==
  IF archMask = "X86" THEN "kErrorOk"
  ELSE IF "GpbHi" \in t.combinedOpFlags /\ (t.combinedRegMask \cap (8..31)) # {}
         THEN "kErrorInvalidUseOfGpbHi"
         ELSE "kErrorOk"

\* The architecture checks without the x64 one.
ArchChecks_NoGpbHi(archMask, t) ==
  IF archMask = "X86"
    THEN IF "Gpq" \in t.combinedOpFlags THEN "kErrorInvalidUseOfGpq" ELSE "kErrorOk"
    ELSE "kErrorOk"

ArchChecks(archMask, t) ==
  IF archMask = "X86"
    THEN IF "Gpq" \in t.combinedOpFlags THEN "kErrorInvalidUseOfGpq" ELSE "kErrorOk"
    ELSE IF "GpbHi" \in t.combinedOpFlags /\ (t.combinedRegMask \cap (8..31)) # {}
           THEN "kErrorInvalidUseOfGpbHi"
           ELSE "kErrorOk"

\* The two checks in the other order.
Preconditions_ArgumentFirst(archType, instId) ==
  IF instId >= kIdCount THEN "kErrorInvalidArgument"
  ELSE IF ~isX86Family(archType) THEN "kErrorInvalidArch"
  ELSE "kErrorOk"

\* The two checks made before anything is looked up.
Preconditions(archType, instId) ==
  IF ~isX86Family(archType) THEN "kErrorInvalidArch"
  ELSE IF instId >= kIdCount THEN "kErrorInvalidArgument"
  ELSE "kErrorOk"

\* The end of validate: hit is the value of iSig after the scan and o what
\* the option checks return.
ValidateScanned(cd, t, hit, o) ==
  IF cd[3] # 0 /\ hit = cd[2] + cd[3]
    THEN Result("kErrorInvalidInstruction", "match", t.i, t.combinedOpFlags,
                t.combinedRegMask, 0 - 1, cd[3])
  ELSE Result(o, IF o # "kErrorOk" THEN "options" ELSE "end", t.i, t.combinedOpFlags,
              t.combinedRegMask, IF hit = cd[2] + cd[3] THEN 0 - 1 ELSE hit, cd[3])

\* validate from the end of the translation loop on: cd is the
\* instruction's common data and t what the loop left.
ValidateTranslated(archMask, cd, t, options, opExtra, opArray, opCount) ==
  IF t.err # "kErrorOk"
    THEN Result(t.err, "translate", t.i, t.combinedOpFlags, t.combinedRegMask, 0 - 1, cd[3])
  ELSE IF HasGap(opArray, opCount, t.i)
    THEN Result("kErrorInvalidState", "gap", t.i, t.combinedOpFlags, t.combinedRegMask,
                0 - 1, cd[3])
  ELSE IF ArchChecks(archMask, t) # "kErrorOk"
    THEN Result(ArchChecks(archMask, t), "arch", t.i, t.combinedOpFlags, t.combinedRegMask,
                0 - 1, cd[3])
  ELSE ValidateScanned(cd, t,
                       ScanFrom(cd[2], cd[2] + cd[3], archMask, t.oSigTranslated, t.i),
                       ValidateOptions(options, opExtra, cd, t.memOp, opArray))

validate(archType, instId, options, opExtra, opArray, opCount) ==
  IF Preconditions(archType, instId) # "kErrorOk"
    THEN Early(Preconditions(archType, instId), "pre")
  ELSE ValidateTranslated(IF archType = kTypeX86 THEN "X86" ELSE "X64",
                          getCommonData(instId),
                          TranslateOperands(IF archType = kTypeX86 THEN _x86ValidationData
                                                                   ELSE _x64ValidationData,
                                            opArray, opCount),
                          options, opExtra, opArray, opCount)

(***************************************************************************)
(* Condition codes.  X86Inst::kCondXxx (x86inst.h, not in src/) number the *)
(* conditions in the order O, NO, B, AE, E, NE, BE, A, S, NS, PE, PO, L,   *)
(* GE, LE, G, then the two FPU aggregates.                                 *)
(***************************************************************************)
kCondO == 0

kCondNO == 1

kCondB == 2

kCondAE == 3

kCondE == 4

kCondNE == 5

kCondBE == 6

kCondA == 7

kCondS == 8

kCondNS == 9

kCondPE == 10

kCondPO == 11

kCondL == 12

kCondGE == 13

kCondLE == 14

kCondG == 15

kCondFpuUnordered == 16

kCondFpuNotUnordered == 17

\* Number of entries of each of the four tables.
kCondCount == 20

\* The table with B sent to A and A sent to BE.
_x86ReverseCond_NotSymmetric ==
  << kCondO, kCondNO, kCondA , kCondBE,
     kCondE, kCondNE, kCondAE, kCondBE,
     kCondS, kCondNS, kCondPE, kCondPO,
     kCondG, kCondLE, kCondGE, kCondL ,
     kCondFpuUnordered, kCondFpuNotUnordered, 18, 19 >>

\* The table of the complements: each condition sent to its negation.
_x86ReverseCond_Negation ==
  << kCondNO, kCondO , kCondAE, kCondB ,
     kCondNE, kCondE , kCondA , kCondBE,
     kCondNS, kCondS , kCondPO, kCondPE,
     kCondGE, kCondL , kCondG , kCondLE,
     kCondFpuUnordered, kCondFpuNotUnordered, 18, 19 >>

_x86ReverseCond ==
  << kCondO, kCondNO, kCondA , kCondBE,     \* O|NO|B |AE
     kCondE, kCondNE, kCondAE, kCondB ,     \* E|NE|BE|A
     kCondS, kCondNS, kCondPE, kCondPO,     \* S|NS|PE|PO
     kCondG, kCondLE, kCondGE, kCondL ,     \* L|GE|LE|G
     kCondFpuUnordered, kCondFpuNotUnordered, 18, 19 >>

\* Instruction ids of the three families (X86Inst::kIdXxx is the index of
\* the INST(Xxx, ...) row in instData).
kIdJo == 277

kIdJno == 273

kIdJb == 255

kIdJae == 254

kIdJe == 258

kIdJne == 268

kIdJbe == 256

kIdJa == 253

kIdJs == 281

kIdJns == 275

kIdJpe == 279

kIdJpo == 280

kIdJl == 261

kIdJge == 260

kIdJle == 262

kIdJg == 259

kIdSeto == 657

kIdSetno == 653

kIdSetb == 635

kIdSetae == 634

kIdSete == 638

kIdSetne == 648

kIdSetbe == 636

kIdSeta == 633

kIdSets == 661

kIdSetns == 655

kIdSetpe == 659

kIdSetpo == 660

kIdSetl == 641

kIdSetge == 640

kIdSetle == 642

kIdSetg == 639

kIdCmovo == 82

kIdCmovno == 78

kIdCmovb == 60

kIdCmovae == 59

kIdCmove == 63

kIdCmovne == 73

kIdCmovbe == 61

kIdCmova == 58

kIdCmovs == 86

kIdCmovns == 80

kIdCmovpe == 84

kIdCmovpo == 85

kIdCmovl == 66

kIdCmovge == 65

kIdCmovle == 67

kIdCmovg == 64

\* CC_TO_INST(X86Inst::kIdCmov).
_x86CondToCmovcc ==
  << kIdCmovo, kIdCmovno, kIdCmovb, kIdCmovae,
     kIdCmove, kIdCmovne, kIdCmovbe, kIdCmova,
     kIdCmovs, kIdCmovns, kIdCmovpe, kIdCmovpo,
     kIdCmovl, kIdCmovge, kIdCmovle, kIdCmovg,
     kInvalidInst, kInvalidInst, kInvalidInst, kInvalidInst >>

\* CC_TO_INST(X86Inst::kIdJ).
_x86CondToJcc ==
  << kIdJo, kIdJno, kIdJb, kIdJae,
     kIdJe, kIdJne, kIdJbe, kIdJa,
     kIdJs, kIdJns, kIdJpe, kIdJpo,
     kIdJl, kIdJge, kIdJle, kIdJg,
     kInvalidInst, kInvalidInst, kInvalidInst, kInvalidInst >>

\* The table with the entries of B and AE exchanged.
_x86CondToSetcc_Exchanged ==
  << kIdSeto, kIdSetno, kIdSetae, kIdSetb,
     kIdSete, kIdSetne, kIdSetbe, kIdSeta,
     kIdSets, kIdSetns, kIdSetpe, kIdSetpo,
     kIdSetl, kIdSetge, kIdSetle, kIdSetg,
     kInvalidInst, kInvalidInst, kInvalidInst, kInvalidInst >>

\* CC_TO_INST(X86Inst::kIdSet).
_x86CondToSetcc ==
  << kIdSeto, kIdSetno, kIdSetb, kIdSetae,
     kIdSete, kIdSetne, kIdSetbe, kIdSeta,
     kIdSets, kIdSetns, kIdSetpe, kIdSetpo,
     kIdSetl, kIdSetge, kIdSetle, kIdSetg,
     kInvalidInst, kInvalidInst, kInvalidInst, kInvalidInst >>

\* X86Inst::reverseCond, condToCmovcc, condToJcc, condToSetcc (x86inst.h,
\* not in src/): each reads entry cond of its table.
reverseCond(cond) == _x86ReverseCond[cond + 1]

condToCmovcc(cond) == _x86CondToCmovcc[cond + 1]

condToJcc(cond) == _x86CondToJcc[cond + 1]

condToSetcc(cond) == _x86CondToSetcc[cond + 1]

(***************************************************************************)
(* The caller.  pc is "idle" or "done"; fn names the function of the last  *)
(* call.  nameArg, lenArg are the arguments of getIdByName, uninit the     *)
(* value the uninitialised bytes of its stack buffer happen to hold, idRet *)
(* its return value and stored the number of bytes it wrote to nameLower.  *)
(* archArg .. cntArg are the arguments of validate and valRet its result.  *)
(* condArg is the condition code the caller started from and condRet what  *)
(* the last condition-code function returned.  _argCount, hasRet and       *)
(* _builderArgList are the members of a FuncSignatureX object, added the   *)
(* types its owner has passed to addArg and assertFailed whether an        *)
(* ASMJIT_ASSERT of the object did not hold.                               *)
(***************************************************************************)
VARIABLES pc, fn, nameArg, lenArg, uninit, idRet, stored,
          archArg, instArg, optArg, extraArg, opsArg, cntArg, valRet,
          condArg, condRet,
          _argCount, hasRet, _builderArgList, added, assertFailed

namesVars == <<nameArg, lenArg, uninit, idRet, stored>>

validateVars == <<archArg, instArg, optArg, extraArg, opsArg, cntArg, valRet>>

condVars == <<condArg, condRet>>

funcVars == <<_argCount, hasRet, _builderArgList, added, assertFailed>>

vars == <<pc, fn, namesVars, validateVars, condVars, funcVars>>

\* Longest operand array a caller passes (the unit tests pass 3).
MaxOpCount == 3

\* Physical register ids run from 0 to MaxRegId in the register sweep.
MaxRegId == 33

\* Values an uninitialised byte of nameLower may hold.
UninitBytes == {0, 120, 255}

CStrArg(bytes) == [null |-> FALSE, bytes |-> bytes]

NullArg == [null |-> TRUE, bytes |-> <<>>]

\* The names of the table, as the unit test x86_inst_names passes them.
NameArgs == { CStrArg(getName(id)) : id \in 0..(kIdCount - 1) }

NoCall == Early("kErrorOk", "none")

Init ==
  /\ pc = "idle"
  /\ fn = "none"
  /\ nameArg = NullArg
  /\ lenArg = 0
  /\ uninit = 0
  /\ idRet = kInvalidInst
  /\ stored = 0
  /\ archArg = kTypeNone
  /\ instArg = 0
  /\ optArg = {}
  /\ extraArg = NoOperand
  /\ opsArg = <<>>
  /\ cntArg = 0
  /\ valRet = NoCall
  /\ condArg = 0
  /\ condRet = 0
  /\ _argCount = 0
  /\ hasRet = FALSE
  /\ _builderArgList = <<>>
  /\ added = <<>>
  /\ assertFailed = FALSE

(***************************************************************************)
(* Calls of X86Inst::getIdByName.                                          *)
(***************************************************************************)
DoGetIdByName(name, len, g) ==
  /\ pc' = "done"
  /\ fn' = "getIdByName"
  /\ nameArg' = name
  /\ lenArg' = len
  /\ uninit' = g
  /\ LET r == getIdByName(name, len, g)
     IN  idRet' = r.id /\ stored' = r.stored
  /\ UNCHANGED <<validateVars, condVars, funcVars>>

\* getIdByName(name, strlen(name)).
LookupWithLength ==
  /\ pc = "idle"
  /\ \E name \in NameArgs : DoGetIdByName(name, Len(name.bytes), 0)

\* getIdByName(name): len defaults to kInvalidIndex.
LookupNulTerminated ==
  /\ pc = "idle"
  /\ \E name \in NameArgs, g \in UninitBytes : DoGetIdByName(name, kInvalidIndex, g)

\* Values the whole of an uninitialised nameLower may be filled with.
UninitFills == 0..255

\* "", "_", "123xyz", "g", "q", "y", "z", "G", "get", "zmm", "@", "[", "`",
\* "{", "a", "j", "mov1", "ADD", "Add", "JMP", "jMp": what the unit test
\* x86_inst_names looks up after the names of the table, and more of the kind.
OtherNames ==
  { CStrArg(b) : b \in
      { <<>>, <<95>>, <<49, 50, 51, 120, 121, 122>>, <<103>>, <<113>>, <<121>>,
        <<122>>, <<71>>, <<103, 101, 116>>, <<122, 109, 109>>, <<64>>, <<91>>,
        <<96>>, <<123>>, <<97>>, <<106>>, <<109, 111, 118, 49>>, <<65, 68, 68>>,
        <<65, 100, 100>>, <<74, 77, 80>>, <<106, 77, 112>> } }

\* getIdByName of a name that is not in the table, or not in lower case,
\* with its length, with length 0 or NUL-terminated.
LookupOther ==
  /\ pc = "idle"
  /\ \E name \in OtherNames :
       \/ \E len \in {0, Len(name.bytes)} : DoGetIdByName(name, len, 0)
       \/ \E g \in UninitFills : DoGetIdByName(name, kInvalidIndex, g)

\* getIdByName(nullptr), with any length.
LookupNull ==
  /\ pc = "idle"
  /\ \E len \in {0, 1, kX86InstMaxLength, kInvalidIndex}, g \in UninitBytes :
       DoGetIdByName(NullArg, len, g)

toUpper(c) == IF c >= 97 /\ c <= 122 THEN c - 32 ELSE c

\* The names of the table in upper case and with a capital first letter.
CasedNames ==
  { CStrArg([i \in 1..Len(n.bytes) |-> toUpper(n.bytes[i])]) : n \in NameArgs }
    \cup
  { CStrArg([i \in 1..Len(n.bytes) |->
               IF i = 1 THEN toUpper(n.bytes[i]) ELSE n.bytes[i]]) : n \in NameArgs }

\* getIdByName of a mnemonic in upper or mixed case.
LookupAnyCase ==
  /\ pc = "idle"
  /\ \E name \in CasedNames :
       \/ DoGetIdByName(name, Len(name.bytes), 0)
       \/ \E g \in UninitBytes : DoGetIdByName(name, kInvalidIndex, g)

kIdVaeskeygenassist == 719

\* "vaeskeygenassist", the longest name of the table (16 bytes), in lower
\* and in upper case, followed by 0, 1, 2 or 4 more bytes.
LongNames ==
  LET n == getName(kIdVaeskeygenassist)
      u == [i \in 1..Len(n) |-> toUpper(n[i])]
  IN  { CStrArg(h \o t) : h \in {n, u},
                          t \in { <<>>, <<120>>, <<120, 120>>, <<120, 120, 120, 120>> } }

\* getIdByName of a name of 16 bytes or more.
LookupLong ==
  /\ pc = "idle"
  /\ \E name \in LongNames :
       \/ DoGetIdByName(name, Len(name.bytes), 0)
       \/ \E g \in UninitBytes : DoGetIdByName(name, kInvalidIndex, g)

(***************************************************************************)
(* Calls of X86Inst::validate.  The operand array always has MaxOpCount    *)
(* elements; opCount says how many of them the callee may look at.         *)
(***************************************************************************)
DoValidate(archType, instId, options, opExtra, opArray, opCount) ==
  /\ pc' = "done"
  /\ fn' = "validate"
  /\ archArg' = archType
  /\ instArg' = instId
  /\ optArg' = options
  /\ extraArg' = opExtra
  /\ opsArg' = opArray
  /\ cntArg' = opCount
  /\ valRet' = validate(archType, instId, options, opExtra, opArray, opCount)
  /\ UNCHANGED <<namesVars, condVars, funcVars>>

\* Instruction ids the calls below use (X86Inst::kIdXxx is the index of the
\* INST(Xxx, ...) row in instData).
kIdNone == 0

kIdCmp == 88

kIdFadd == 145

kIdMov == 359

kIdMul == 400

kIdPand == 429

kIdVaddpd == 708

kIdVaddps == 709

kIdVaddsd == 710

kIdVcvtpd2dq == 760

kIdVfpclasspd == 906

kIdVmaxpd == 954

kIdVmaxsd == 956

kIdVpaddw == 1015

kIdVpand == 1017

\* Padding of an operand array with none operands up to MaxOpCount, as the
\* default arguments of x86_validate / x64_validate do.
Pad(ops) == ops \o [k \in 1..(MaxOpCount - Len(ops)) |-> NoOperand]

\* al, ah, r8b, ax, eax, edx, rax, rdx, r8, cs, fs, cr0, cr8, dr7, fp0, fp7,
\* mm0, xmm0, xmm8, a virtual gpd, [ebx], [rbx], imm(1), a label, an
\* operand of no known kind.
FirstOperands ==
  { NoOperand,
    Reg(kRegGpbLo, 0), Reg(kRegGpbHi, 0), Reg(kRegGpbLo, 8),
    Reg(kRegGpw, 0), Reg(kRegGpd, 0), Reg(kRegGpd, 2),
    Reg(kRegGpq, 0), Reg(kRegGpq, 2), Reg(kRegGpq, 8),
    Reg(kRegSeg, 2), Reg(kRegSeg, 5),
    Reg(kRegCr, 0), Reg(kRegCr, 8), Reg(kRegDr, 7),
    Reg(kRegFp, 0), Reg(kRegFp, 7), Reg(kRegMm, 0),
    Reg(kRegXmm, 0), Reg(kRegXmm, 8), Reg(kRegGpd, kPackedIdMin),
    Mem(0, kRegGpd, 0), Mem(0, kRegGpq, 0), Imm(1), LabelOp(0), OtherOperand }

\* What follows the first two operands: nothing, eax, xmm0.
MoreOperands == { NoOperand, Reg(kRegGpd, 0), Reg(kRegXmm, 0) }

Arches == { kTypeX86, kTypeX64 }

\* x86_validate / x64_validate of the unit tests: two leading operands and
\* the rest of the array, opCount the array's length.
ValidateOperands ==
  /\ pc = "idle"
  /\ \E archType \in Arches,
        instId \in { kIdCmp, kIdMov, kIdMul, kIdFadd, kIdPand },
        a \in FirstOperands, b \in FirstOperands,
        t \in [1..(MaxOpCount - 2) -> MoreOperands] :
       DoValidate(archType, instId, {}, NoOperand, <<a, b>> \o t, MaxOpCount)

\* none, eax, rax, ah, r8b and an operand of no known kind.
CountedOperands ==
  { NoOperand, Reg(kRegGpd, 0), Reg(kRegGpq, 0), Reg(kRegGpbHi, 0),
    Reg(kRegGpbLo, 8), OtherOperand }

\* Any opCount up to the array's length, none operands anywhere.
ValidateCounted ==
  /\ pc = "idle"
  /\ \E archType \in Arches, instId \in { kIdMov, kIdCmp },
        opArray \in [1..MaxOpCount -> CountedOperands], opCount \in 0..MaxOpCount :
       DoValidate(archType, instId, {}, NoOperand, opArray, opCount)

\* Register ids: the physical ones, kInvalidReg and some virtual ones.
RegIds == (0..MaxRegId) \cup { kInvalidReg, kPackedIdMin, kPackedIdMin + 9, kPackedIdMin + 255 }

\* One register of any type and id, alone or after ah.
ValidateRegister ==
  /\ pc = "idle"
  /\ \E archType \in Arches, regType \in 0..(kRegCount + 1), id \in RegIds,
        first \in { NoOperand, Reg(kRegGpbHi, 0) } :
       DoValidate(archType, kIdMov, {}, NoOperand,
                  Pad(IF first = NoOperand THEN << Reg(regType, id) >>
                                           ELSE << first, Reg(regType, id) >>),
                  MaxOpCount)

\* Every instruction of the table with a few operand vectors.
ValidateAnyInst ==
  /\ pc = "idle"
  /\ \E archType \in Arches, instId \in 0..(kIdCount - 1),
        ops \in { <<>>, << Reg(kRegGpd, 0), Reg(kRegGpd, 2) >>,
                  << Reg(kRegXmm, 0), Reg(kRegXmm, 1), Reg(kRegXmm, 2) >> } :
       DoValidate(archType, instId, {}, NoOperand, Pad(ops), MaxOpCount)

\* Any architecture type and instruction ids around the end of the table.
ValidateAnyArch ==
  /\ pc = "idle"
  /\ \E archType \in kTypeNone..(kTypeArm32 + 1),
        instId \in { kIdNone, kIdMov, kIdCount - 1, kIdCount, kIdCount + 1 },
        options \in { {}, {"KZ"} },
        ops \in { <<>>, << Reg(kRegGpd, 0), Reg(kRegGpd, 2) >>, << OtherOperand >>,
                  << NoOperand, Reg(kRegGpd, 0) >> } :
       DoValidate(archType, instId, options, NoOperand, Pad(ops), MaxOpCount)

\* AVX-512 instructions with every combination of the AVX-512 options, an
\* operand of each vector size or a memory operand of no, 4 or 8 bytes
\* last, and no extra operand, k1 or xmm0 as the extra operand.
ValidateWithOptions ==
  /\ pc = "idle"
  /\ \E archType \in Arches,
        instId \in { kIdVaddpd, kIdVaddps, kIdVaddsd, kIdVcvtpd2dq, kIdVfpclasspd,
                     kIdVmaxpd, kIdVmaxsd, kIdVpaddw, kIdVpand, kIdMov },
        options \in SUBSET kAvx512Options,
        opExtra \in { NoOperand, Reg(kRegK, 1), Reg(kRegXmm, 0) },
        ops \in { << Reg(kRegXmm, 0), Reg(kRegXmm, 1), Reg(kRegXmm, 2) >>,
                  << Reg(kRegZmm, 0), Reg(kRegZmm, 1), Reg(kRegZmm, 2) >>,
                  << Reg(kRegYmm, 0), Reg(kRegZmm, 1) >>,
                  << Reg(kRegXmm, 0), Reg(kRegXmm, 1), Mem(0, kRegGpd, 0) >>,
                  << Reg(kRegXmm, 0), Reg(kRegXmm, 1), Mem(4, kRegGpd, 0) >>,
                  << Reg(kRegXmm, 0), Reg(kRegXmm, 1), Mem(8, kRegGpd, 0) >>,
                  << Reg(kRegZmm, 0), Reg(kRegZmm, 1), Mem(4, kRegGpd, 0) >>,
                  << Reg(kRegK, 1), Reg(kRegZmm, 1), Imm(1) >>,
                  << Reg(kRegGpd, 0), Reg(kRegGpd, 2) >> } :
       DoValidate(archType, instId, options, opExtra, Pad(ops), MaxOpCount)

\* Option bits that are not AVX-512 options: none, each of REX, VEX3, EVEX,
\* OpCodeB, OpCodeX, OpCodeR, OpCodeW, and all of them.
OtherOptions ==
  LET all == {"Rex", "Vex3", "Evex", "OpCodeB", "OpCodeX", "OpCodeR", "OpCodeW"}
  IN  { {} , all } \cup { {o} : o \in all }

\* Calls with option bits other than the AVX-512 ones, alone and together
\* with AVX-512 options, with and without an extra operand, on operands
\* with and without ah.
ValidateWithOtherOptions ==
  /\ pc = "idle"
  /\ \E archType \in Arches,
        instId \in { kIdMov, kIdVaddpd, kIdVpand },
        other \in OtherOptions,
        avx \in { {}, {"K"}, {"K", "KZ"}, {"1ToX"}, {"SAE"}, {"ER"} },
        opExtra \in { NoOperand, Reg(kRegK, 1), Reg(kRegXmm, 0), Reg(kRegGpd, 0) },
        ops \in { << Reg(kRegGpbHi, 0), Reg(kRegGpbLo, 1) >>,
                  << Reg(kRegGpbHi, 0), Reg(kRegGpbLo, 8) >>,
                  << Reg(kRegZmm, 0), Reg(kRegZmm, 1), Reg(kRegZmm, 2) >>,
                  << Reg(kRegXmm, 0), Reg(kRegXmm, 1), Mem(8, kRegGpd, 0) >> } :
       DoValidate(archType, instId, other \cup avx, opExtra, Pad(ops), MaxOpCount)

kIdJecxz == 283

\* JECXZ with cx, ecx, rcx, eax or cl and a label or an immediate.
ValidateJecxz ==
  /\ pc = "idle"
  /\ \E archType \in Arches,
        counter \in { Reg(kRegGpw, 1), Reg(kRegGpd, 1), Reg(kRegGpq, 1),
                      Reg(kRegGpd, 0), Reg(kRegGpbLo, 1) },
        target \in { LabelOp(0), Imm(1) } :
       DoValidate(archType, kIdJecxz, {}, NoOperand, Pad(<< counter, target >>), MaxOpCount)

kIdBlendvpd == 31

kIdCmpxchg == 97

kIdCmpxchg8b == 99

kIdCpuid == 102

kIdDiv == 132

kIdMulx == 405

\* ax, dx, eax, edx, bl, xmm0, xmm1, [ebx].
ImplicitOperands ==
  { Reg(kRegGpw, 0), Reg(kRegGpw, 2), Reg(kRegGpd, 0), Reg(kRegGpd, 2),
    Reg(kRegGpbLo, 3), Reg(kRegXmm, 0), Reg(kRegXmm, 1), Mem(0, kRegGpd, 0) }

\* Instructions with implicit operands, called with none to MaxOpCount
\* operands.
ValidateImplicit ==
  /\ pc = "idle"
  /\ \E archType \in Arches,
        instId \in { kIdMul, kIdDiv, kIdCmpxchg, kIdCmpxchg8b, kIdBlendvpd, kIdMulx, kIdCpuid },
        n \in 0..MaxOpCount :
       \E ops \in [1..n -> ImplicitOperands] :
         DoValidate(archType, instId, {}, NoOperand, Pad(ops), MaxOpCount)

\* Immediate values: small, at the edges of 8, 16 and 32 bits, negative.
ImmValues == { 0, 1, 0 - 1, 127, 128, 0 - 128, 255, 256, 65535, 65536, 2147483647, 0 - 2147483647 }

\* al, ax, eax, rax, [ebx], xmm0: what an immediate is moved to or compared
\* with.
ImmTargets ==
  { Reg(kRegGpbLo, 0), Reg(kRegGpw, 0), Reg(kRegGpd, 0), Reg(kRegGpq, 0),
    Mem(0, kRegGpd, 0), Reg(kRegXmm, 0) }

\* An instruction with an immediate operand of any value, last or first.
ValidateImmediate ==
  /\ pc = "idle"
  /\ \E archType \in Arches, instId \in { kIdMov, kIdCmp, kIdMul },
        target \in ImmTargets, val \in ImmValues :
       \/ DoValidate(archType, instId, {}, NoOperand, Pad(<< target, Imm(val) >>), MaxOpCount)
       \/ DoValidate(archType, instId, {}, NoOperand, Pad(<< Imm(val), target >>), MaxOpCount)

\* Sizes of a memory operand in bytes; 0 is no size.
MemSizes == { 0, 1, 2, 4, 8, 16 }

\* MOV or CMP of al, ax, eax or rax and a memory operand with or without a
\* size, with no index, a GP index or a vector index.
ValidateSizedMem ==
  /\ pc = "idle"
  /\ \E archType \in Arches, instId \in { kIdMov, kIdCmp },
        reg \in { Reg(kRegGpbLo, 0), Reg(kRegGpw, 0), Reg(kRegGpd, 0), Reg(kRegGpq, 0) },
        size \in MemSizes, baseType \in { kRegGpd, kRegGpq },
        indexType \in { 0, kRegGpd, kRegXmm } :
       \/ DoValidate(archType, instId, {}, NoOperand,
                     Pad(<< reg, Mem(size, baseType, indexType) >>), MaxOpCount)
       \/ DoValidate(archType, instId, {}, NoOperand,
                     Pad(<< Mem(size, baseType, indexType), reg >>), MaxOpCount)

\* MOV of ah or eax and a memory operand whose base and index are of any
\* type, with ids inside and outside the range of physical ids.
ValidateMemAddress ==
  /\ pc = "idle"
  /\ \E archType \in Arches, reg \in { Reg(kRegGpbHi, 0), Reg(kRegGpd, 0) },
        baseType \in 0..kRegCount, baseId \in { 0, 8, MaxRegId + 7 },
        indexType \in 0..kRegCount, indexId \in { 0, MaxRegId } :
       DoValidate(archType, kIdMov, {}, NoOperand,
                  Pad(<< reg, MemIds(0, baseType, baseId, indexType, indexId) >>), MaxOpCount)

\* MOV of a control or debug register to ax, eax or rax.
ValidateMovSpecial ==
  /\ pc = "idle"
  /\ \E archType \in Arches,
        dst \in { Reg(kRegGpw, 0), Reg(kRegGpd, 0), Reg(kRegGpq, 0) },
        regType \in { kRegCr, kRegDr }, id \in 0..8 :
       DoValidate(archType, kIdMov, {}, NoOperand,
                  Pad(<< dst, Reg(regType, id) >>), MaxOpCount)

\* FADD st(i), st(j) for every pair of FP registers.
ValidateFpPair ==
  /\ pc = "idle"
  /\ \E archType \in Arches, i \in 0..7, j \in 0..7 :
       DoValidate(archType, kIdFadd, {}, NoOperand,
                  Pad(<< Reg(kRegFp, i), Reg(kRegFp, j) >>), MaxOpCount)

(***************************************************************************)
(* Calls of the condition-code functions.                                  *)
(***************************************************************************)
DoCond(name, cond, ret) ==
  /\ pc' = "done"
  /\ fn' = name
  /\ condArg' = cond
  /\ condRet' = ret
  /\ UNCHANGED <<namesVars, validateVars, funcVars>>

ReverseCond ==
  /\ pc = "idle"
  /\ \E cond \in 0..(kCondCount - 1) : DoCond("reverseCond", cond, reverseCond(cond))

\* The caller reverses the condition it got from reverseCond.
ReverseBack ==
  /\ pc = "done"
  /\ fn = "reverseCond"
  /\ condRet < kCondCount
  /\ DoCond("reverseCondTwice", condArg, reverseCond(condRet))

CondToCmovcc ==
  /\ pc = "idle"
  /\ \E cond \in 0..(kCondCount - 1) : DoCond("condToCmovcc", cond, condToCmovcc(cond))

CondToJcc ==
  /\ pc = "idle"
  /\ \E cond \in 0..(kCondCount - 1) : DoCond("condToJcc", cond, condToJcc(cond))

CondToSetcc ==
  /\ pc = "idle"
  /\ \E cond \in 0..(kCondCount - 1) : DoCond("condToSetcc", cond, condToSetcc(cond))

\* The caller looks up the name of the instruction a table gave it.
LookupCondInst ==
  /\ pc = "done"
  /\ fn \in {"condToCmovcc", "condToJcc", "condToSetcc"}
  /\ LET name == CStrArg(getName(condRet))
     IN  DoGetIdByName(name, Len(name.bytes), 0)

\* The call returns and the caller forgets it.
Return ==
  /\ pc = "done"
  /\ pc' = "idle"
  /\ fn' = "none"
  /\ nameArg' = NullArg
  /\ lenArg' = 0
  /\ uninit' = 0
  /\ idRet' = kInvalidInst
  /\ stored' = 0
  /\ archArg' = kTypeNone
  /\ instArg' = 0
  /\ optArg' = {}
  /\ extraArg' = NoOperand
  /\ opsArg' = <<>>
  /\ cntArg' = 0
  /\ valRet' = NoCall
  /\ condArg' = 0
  /\ condRet' = 0
  /\ UNCHANGED funcVars

(***************************************************************************)
(* FuncSignatureX (func.h).  _builderArgList is modelled by the tuple of   *)
(* the bytes stored so far, the byte stored at index i being element i+1;  *)
(* a tuple longer than kFuncArgCount records a store past the end of the   *)
(* array.  hasRet stands for _ret != TypeId::kVoid.  An object whose       *)
(* assertion failed is not used again.                                     *)
(***************************************************************************)
kFuncArgCount == 16

kFuncArgCountLoHi == kFuncArgCount * 2

\* Type ids a caller passes.
ArgTypes == {1, 2}

\* FuncSignatureX(): setup(callConv, TypeId::kVoid, _builderArgList, 0).
Construct ==
  /\ _argCount' = 0
  /\ hasRet' = FALSE
  /\ _builderArgList' = <<>>
  /\ added' = <<>>
  /\ assertFailed' = FALSE
  /\ UNCHANGED <<pc, fn, namesVars, validateVars, condVars>>

\* setRet(retType), with TypeId::kVoid or with another type.
setRet ==
  /\ ~assertFailed
  /\ \E nonVoid \in BOOLEAN : hasRet' = nonVoid
  /\ UNCHANGED <<_argCount, _builderArgList, added, assertFailed>>
  /\ UNCHANGED <<pc, fn, namesVars, validateVars, condVars>>

\* The body of addArg(type): ASMJIT_ASSERT(_argCount < kFuncArgCount), then
\* _builderArgList[_argCount++] = uint8_t(type).
StoreArg(type) ==
  /\ assertFailed' = ~(_argCount < kFuncArgCount)
  /\ _builderArgList' = Append(_builderArgList, type % 256)
  /\ _argCount' = (_argCount + 1) % 256

addArg ==
  /\ ~assertFailed
  /\ \E type \in ArgTypes :
       /\ StoreArg(type)
       /\ added' = Append(added, type)
  /\ UNCHANGED hasRet
  /\ UNCHANGED <<pc, fn, namesVars, validateVars, condVars>>

\* FuncSignature::getArgCount().
getArgCount == _argCount

\* FuncSignature::getArg(i): _args[i], _args being _builderArgList.
getArg(i) == _builderArgList[i + 1]

NextNames ==
  \/ LookupWithLength
  \/ LookupNulTerminated
  \/ LookupOther
  \/ LookupNull
  \/ LookupAnyCase
  \/ LookupLong
  \/ Return

NextValidate ==
  \/ ValidateOperands
  \/ ValidateCounted
  \/ ValidateRegister
  \/ ValidateAnyInst
  \/ ValidateAnyArch
  \/ ValidateWithOptions
  \/ ValidateWithOtherOptions
  \/ ValidateJecxz
  \/ ValidateFpPair
  \/ ValidateMovSpecial
  \/ ValidateImplicit
  \/ ValidateImmediate
  \/ ValidateSizedMem
  \/ ValidateMemAddress
  \/ Return

NextCond ==
  \/ ReverseCond
  \/ ReverseBack
  \/ CondToCmovcc
  \/ CondToJcc
  \/ CondToSetcc
  \/ LookupCondInst
  \/ Return

NextFunc ==
  \/ Construct
  \/ setRet
  \/ addArg

Next == NextNames \/ NextValidate \/ NextCond \/ NextFunc

\* The name index alone, the validator alone, the condition-code tables
\* alone, and all of them.
SpecNames == Init /\ [][NextNames]_vars

SpecValidate == Init /\ [][NextValidate]_vars

SpecCond == Init /\ [][NextCond]_vars

SpecFunc == Init /\ [][NextFunc]_vars

Spec == Init /\ [][Next]_vars

(***************************************************************************)
(* Properties.  They speak of the state after a call has returned: the     *)
(* arguments of the call and what it returned.  What the arguments make    *)
(* true is computed here from the arguments, not read off the result.      *)
(***************************************************************************)
Validated == pc = "done" /\ fn = "validate"

\* The call passes the two preconditions.
PreconditionsHold == isX86Family(archArg) /\ instArg < kIdCount

ArgVd == IF archArg = kTypeX86 THEN _x86ValidationData ELSE _x64ValidationData

ArgArchMask == IF archArg = kTypeX86 THEN "X86" ELSE "X64"

RECURSIVE LeadingFrom(_)
\* Number of leading operands of opsArg[1..cntArg] that are not none.
LeadingFrom(k) ==
  IF k >= cntArg \/ opsArg[k + 1].op = "None" THEN k ELSE LeadingFrom(k + 1)

Leading == LeadingFrom(0)

\* Operand k (counted from 1) is given, and every operand before it is
\* given and translates without error: the translation loop gets to it.
Reached(k) ==
  /\ k <= Leading
  /\ \A j \in 1..(k - 1) : TranslateOperand(ArgVd, opsArg[j]).err = "kErrorOk"

\* Every leading operand translates without error.
OperandsTranslate ==
  \A j \in 1..Leading : TranslateOperand(ArgVd, opsArg[j]).err = "kErrorOk"

\* A non-none operand after the first none operand.
GapInOperands == \E k \in (Leading + 2)..cntArg : opsArg[k].op # "None"

\* Operand translation, the gap check included, returns no error.
TranslationPasses == OperandsTranslate /\ ~GapInOperands

IsPhysReg(op) == op.op = "Reg" /\ op.id < kPackedIdMin

HasRegOfType(regType) ==
  \E k \in 1..Leading : opsArg[k].op = "Reg" /\ opsArg[k].regType = regType

\* The call gets as far as the signature scan.
ReachesMatch ==
  /\ Validated
  /\ PreconditionsHold
  /\ TranslationPasses
  /\ ArchChecks(ArgArchMask, TranslateOperands(ArgVd, opsArg, cntArg)) = "kErrorOk"

GroupRows == getCommonData(instArg)[3]

\* No row of the instruction's signature group matches the operands.
NoRowMatches ==
  LET cd == getCommonData(instArg)
      t  == TranslateOperands(ArgVd, opsArg, cntArg)
  IN  \A k \in cd[2]..(cd[2] + cd[3] - 1) :
        ~RowMatches(ISignature(k), ArgArchMask, t.oSigTranslated, t.i)

\* The leading operands of the call are exactly ops.
OperandsAre(ops) == Leading = Len(ops) /\ ~GapInOperands /\ SubSeq(opsArg, 1, Leading) = ops

(***************************************************************************)
(* C1.  Name round trip: for every instruction id whose name is not empty, *)
(* getIdByName of that name, passed NUL-terminated with the default length *)
(* or with its explicit length, returns that id (the id's name is the      *)
(* name passed: names are unique).                                         *)
(***************************************************************************)
C1_RoundTrip ==
  (pc = "done" /\ fn = "getIdByName" /\ ~nameArg.null /\ nameArg.bytes # <<>>
     /\ lenArg \in {kInvalidIndex, Len(nameArg.bytes)})
    => (idRet \in 0..(kIdCount - 1) /\ getName(idRet) = nameArg.bytes)

(***************************************************************************)
(* C2, as stated.  For every call that passes operand translation and the  *)
(* architecture checks, the instructions with an empty signature group     *)
(* included: if no row of the group matches, validate returns              *)
(* kErrorInvalidInstruction, and it gets past the match phase only when    *)
(* some row matched.                                                       *)
(***************************************************************************)
C2_NoRowIsInvalidInstruction ==
  ReachesMatch =>
    /\ NoRowMatches => valRet.err = "kErrorInvalidInstruction"
    /\ valRet.phase \in {"options", "end"} => ~NoRowMatches

(***************************************************************************)
(* C2, amended.  The statement holds for the instructions whose signature  *)
(* group has at least one row.  For an instruction whose group is empty    *)
(* the scan is not made: the call never returns kErrorInvalidInstruction   *)
(* and goes on to the option checks whatever its operands are.             *)
(***************************************************************************)
C2_NonEmptyGroup ==
  ReachesMatch =>
    /\ GroupRows > 0 =>
         /\ NoRowMatches => valRet.err = "kErrorInvalidInstruction"
         /\ valRet.phase \in {"options", "end"} =>
              (~NoRowMatches /\ valRet.row >= 0
                 /\ RowMatches(ISignature(valRet.row), ArgArchMask,
                      TranslateOperands(ArgVd, opsArg, cntArg).oSigTranslated, Leading))
    /\ GroupRows = 0 =>
         (valRet.err # "kErrorInvalidInstruction" /\ valRet.phase \in {"options", "end"})

\* CMP with one operand: a group of ten rows, none matches.
C2_Witness ==
  /\ ReachesMatch
  /\ instArg = kIdCmp
  /\ GroupRows > 0
  /\ Leading > 0
  /\ NoRowMatches
  /\ valRet.err = "kErrorInvalidInstruction"

(***************************************************************************)
(* C3.  In x86 mode every call whose operands contain a 64-bit GP          *)
(* register, and whose operand translation returns no error, returns       *)
(* kErrorInvalidUseOfGpq, also when no signature row could match; the      *)
(* error is never returned in another mode.  (A call here is one that      *)
(* passes the preconditions.)                                              *)
(***************************************************************************)
C3_GpqInX86 ==
  (Validated /\ PreconditionsHold) =>
    /\ (archArg = kTypeX86 /\ TranslationPasses /\ HasRegOfType(kRegGpq))
         => valRet.err = "kErrorInvalidUseOfGpq"
    /\ archArg # kTypeX86 => valRet.err # "kErrorInvalidUseOfGpq"

\* Scenario S3: x86 CMP rax, rdx, which no row of CMP's group matches in x86.
C3_Witness ==
  /\ Validated
  /\ archArg = kTypeX86
  /\ instArg = kIdCmp
  /\ OperandsAre(<< Reg(kRegGpq, 0), Reg(kRegGpq, 2) >>)
  /\ NoRowMatches
  /\ valRet.err = "kErrorInvalidUseOfGpq"

(***************************************************************************)
(* C4.  A register operand the translation loop gets to, of a register     *)
(* type that has an operand flag, with a physical id (below kPackedIdMin): *)
(* validate returns kErrorInvalidPhysId when the id is not in the          *)
(* architecture's allowedRegMask of the type, and so when it is outside    *)
(* the ranges the claim lists (C4_StatedMask).  A register with a virtual  *)
(* id is never the operand rejected with kErrorInvalidPhysId and adds      *)
(* nothing to combinedRegMask, which holds physical ids of the translated  *)
(* operands only.                                                          *)
(***************************************************************************)
C4_StatedMask(regType) ==
  IF archArg = kTypeX86
    THEN CASE regType \in {kRegXmm, kRegYmm, kRegZmm} -> 0..7
           [] regType \in {kRegGpbLo, kRegGpbHi, kRegGpw, kRegGpd, kRegGpq} -> 0..7
           [] regType = kRegCr -> 0..7
           [] regType = kRegSeg -> 1..6
           [] OTHER -> 0..31
    ELSE CASE regType \in {kRegXmm, kRegYmm, kRegZmm} -> 0..31
           [] regType \in {kRegGpbLo, kRegGpbHi, kRegGpw, kRegGpd, kRegGpq} -> 0..15
           [] regType = kRegCr -> 0..8
           [] regType = kRegSeg -> 5..6
           [] OTHER -> 0..31

C4_HasOpFlag(op) ==
  op.regType < kRegCount /\ _x86OpFlagFromRegType[op.regType + 1] # {}

C4_PhysId ==
  (Validated /\ PreconditionsHold) =>
    /\ \A k \in 1..Leading :
         (/\ Reached(k)
          /\ IsPhysReg(opsArg[k])
          /\ C4_HasOpFlag(opsArg[k])
          /\ \/ opsArg[k].id \notin ArgVd.allowedRegMask[opsArg[k].regType + 1]
             \/ opsArg[k].id \notin C4_StatedMask(opsArg[k].regType))
           => (valRet.err = "kErrorInvalidPhysId" /\ valRet.i = k - 1)
    /\ valRet.err = "kErrorInvalidPhysId" => IsPhysReg(opsArg[valRet.i + 1])
    /\ valRet.combinedRegMask \subseteq
         { opsArg[k].id : k \in { j \in 1..Leading : IsPhysReg(opsArg[j]) } }
    /\ (\A k \in 1..Leading : opsArg[k].op = "Reg" => ~IsPhysReg(opsArg[k]))
         => valRet.combinedRegMask = {}

\* Scenario S9: x86 PAND xmm8, ... is rejected at its first operand.
C4_Witness ==
  /\ Validated
  /\ archArg = kTypeX86
  /\ instArg = kIdPand
  /\ Leading >= 1
  /\ opsArg[1] = Reg(kRegXmm, 8)
  /\ valRet.err = "kErrorInvalidPhysId"

(***************************************************************************)
(* C5.  Outside x86 mode (x64), every call that gets to the architecture   *)
(* checks and whose operands contain a GpbHi register together with a      *)
(* register of physical id 8..15 returns kErrorInvalidUseOfGpbHi.  The     *)
(* error is never returned in x86 mode, nor when no operand is a GpbHi     *)
(* register.                                                               *)
(***************************************************************************)
C5_GpbHiWithRex ==
  (Validated /\ PreconditionsHold) =>
    /\ (/\ archArg # kTypeX86
        /\ TranslationPasses
        /\ HasRegOfType(kRegGpbHi)
        /\ \E k \in 1..Leading : IsPhysReg(opsArg[k]) /\ opsArg[k].id \in 8..15)
         => valRet.err = "kErrorInvalidUseOfGpbHi"
    /\ valRet.err = "kErrorInvalidUseOfGpbHi"
         => (archArg # kTypeX86 /\ HasRegOfType(kRegGpbHi))

\* x64 MOV ah, r8b.
C5_Witness ==
  /\ Validated
  /\ archArg = kTypeX64
  /\ OperandsAre(<< Reg(kRegGpbHi, 0), Reg(kRegGpbLo, 8) >>)
  /\ valRet.err = "kErrorInvalidUseOfGpbHi"

(***************************************************************************)
(* C6.  The operand array ends at its first none operand: the call         *)
(* returns what the call with opCount set to the number of leading         *)
(* non-none operands returns (none operands appended to a vector change    *)
(* nothing), and that number is the operand count the signature scan       *)
(* uses.  If an operand after the first none is not none, the call returns *)
(* kErrorInvalidState, provided the operands before the first none         *)
(* translated without error.                                               *)
(***************************************************************************)
C6_EndsAtFirstNone ==
  (Validated /\ PreconditionsHold) =>
    /\ ~GapInOperands =>
         /\ valRet = validate(archArg, instArg, optArg, extraArg, opsArg, Leading)
         /\ valRet.phase \in {"arch", "match", "options", "end"} => valRet.i = Leading
    /\ (GapInOperands /\ OperandsTranslate) =>
         (valRet.err = "kErrorInvalidState" /\ valRet.phase = "gap")

\* [eax, none, eax].
C6_Witness ==
  /\ Validated
  /\ PreconditionsHold
  /\ cntArg = 3
  /\ SubSeq(opsArg, 1, 3) = << Reg(kRegGpd, 0), NoOperand, Reg(kRegGpd, 0) >>
  /\ valRet.err = "kErrorInvalidState"

(***************************************************************************)
(* C7.  Preconditions: an architecture outside the x86 family gives        *)
(* kErrorInvalidArch whatever the other arguments are; otherwise an        *)
(* instruction id not below the instruction count gives                    *)
(* kErrorInvalidArgument whatever the operands and options are.  Both      *)
(* returns come before any table or operand is looked at: nothing has      *)
(* been computed from them.                                                *)
(***************************************************************************)
C7_Preconditions ==
  Validated =>
    /\ ~isX86Family(archArg) => valRet = Early("kErrorInvalidArch", "pre")
    /\ (isX86Family(archArg) /\ instArg >= kIdCount)
         => valRet = Early("kErrorInvalidArgument", "pre")
    /\ valRet.err \in {"kErrorInvalidArch", "kErrorInvalidArgument"} => ~PreconditionsHold

\* An architecture outside the family together with an id out of range.
C7_Witness ==
  /\ Validated
  /\ archArg = kTypeArm32
  /\ instArg >= kIdCount
  /\ opsArg[1] = OtherOperand
  /\ "KZ" \in optArg
  /\ valRet.err = "kErrorInvalidArch"

(***************************************************************************)
(* C8, as stated.  Scenario S11: validate(x64, MOV, [eax, cr8]) with no    *)
(* options returns kErrorInvalidPhysId.                                    *)
(***************************************************************************)
C8_S11_InvalidPhysId ==
  (Validated /\ archArg = kTypeX64 /\ instArg = kIdMov /\ optArg = {}
     /\ OperandsAre(<< Reg(kRegGpd, 0), Reg(kRegCr, 8) >>))
    => valRet.err = "kErrorInvalidPhysId"

(***************************************************************************)
(* C8, amended.  validate(x64, MOV, [eax, cr8]) with no options returns    *)
(* kErrorInvalidInstruction: cr8 is in the x64 mask of the control         *)
(* registers and both operands translate, but no x64 row of MOV's group    *)
(* takes a 32-bit register with a control register.  It is in x86 mode     *)
(* that the same operands give kErrorInvalidPhysId.                        *)
(***************************************************************************)
C8_S11_InvalidInstruction ==
  (Validated /\ instArg = kIdMov /\ optArg = {}
     /\ OperandsAre(<< Reg(kRegGpd, 0), Reg(kRegCr, 8) >>))
    => /\ archArg = kTypeX64 =>
            (valRet.err = "kErrorInvalidInstruction" /\ TranslationPasses)
       /\ archArg = kTypeX86 => valRet.err = "kErrorInvalidPhysId"

C8_Witness ==
  /\ Validated
  /\ archArg = kTypeX64
  /\ instArg = kIdMov
  /\ optArg = {}
  /\ OperandsAre(<< Reg(kRegGpd, 0), Reg(kRegCr, 8) >>)
  /\ valRet.err = "kErrorInvalidInstruction"

(***************************************************************************)
(* C9, as stated.  Scenario S13: validate(x86, MOV, [ax, cs]) with no      *)
(* options returns kErrorInvalidInstruction.                               *)
(***************************************************************************)
C9_S13_InvalidInstruction ==
  (Validated /\ archArg = kTypeX86 /\ instArg = kIdMov /\ optArg = {}
     /\ OperandsAre(<< Reg(kRegGpw, 0), Reg(kRegSeg, 2) >>))
    => valRet.err = "kErrorInvalidInstruction"

(***************************************************************************)
(* C9, amended.  validate(x86, MOV, [ax, cs]) with no options returns      *)
(* kErrorOk: cs is the source here, in the x86 mask of the segment         *)
(* registers, and a row of MOV's group takes a 16-bit register with a      *)
(* segment register.  In x64 mode the same operands give                   *)
(* kErrorInvalidPhysId (only fs and gs are in the x64 mask).               *)
(***************************************************************************)
C9_S13_Ok ==
  (Validated /\ instArg = kIdMov /\ optArg = {}
     /\ OperandsAre(<< Reg(kRegGpw, 0), Reg(kRegSeg, 2) >>))
    => /\ archArg = kTypeX86 => (valRet.err = "kErrorOk" /\ valRet.row >= 0)
       /\ archArg = kTypeX64 => valRet.err = "kErrorInvalidPhysId"

C9_Witness ==
  /\ Validated
  /\ archArg = kTypeX86
  /\ instArg = kIdMov
  /\ optArg = {}
  /\ OperandsAre(<< Reg(kRegGpw, 0), Reg(kRegSeg, 2) >>)
  /\ valRet.err = "kErrorOk"

(***************************************************************************)
(* C10.  For a call whose operands matched a signature row, the {k} and    *)
(* {z} checks are made in this order and the first failure is returned:    *)
(* KZ without K gives kErrorInvalidKZeroUse; K with an extra operand that  *)
(* is not a K register gives kErrorInvalidKMaskReg; K on an instruction    *)
(* without EvexK_ gives kErrorInvalidKMaskUse; KZ on an instruction        *)
(* without EvexKZ gives kErrorInvalidKZeroUse.  With neither K nor KZ set  *)
(* none of the three errors is returned.                                   *)
(***************************************************************************)
C10_MaskChecksInOrder ==
  (ReachesMatch /\ GroupRows > 0 /\ ~NoRowMatches) =>
    LET k    == "K" \in optArg
        kz   == "KZ" \in optArg
        kReg == extraArg.op = "Reg" /\ extraArg.regType = kRegK
        cd   == getCommonData(instArg)
    IN  /\ (kz /\ ~k) => valRet.err = "kErrorInvalidKZeroUse"
        /\ (k /\ ~kReg) => valRet.err = "kErrorInvalidKMaskReg"
        /\ (k /\ kReg /\ "EvexK_" \notin cd[1]) => valRet.err = "kErrorInvalidKMaskUse"
        /\ (k /\ kReg /\ "EvexK_" \in cd[1] /\ kz /\ "EvexKZ" \notin cd[1])
             => valRet.err = "kErrorInvalidKZeroUse"
        /\ (~k /\ ~kz) => valRet.err \notin
             {"kErrorInvalidKZeroUse", "kErrorInvalidKMaskReg", "kErrorInvalidKMaskUse"}

\* VFPCLASSPD k1 {k1}{z}, zmm1, 1: masking is permitted, zeroing is not.
C10_Witness ==
  /\ ReachesMatch
  /\ ~NoRowMatches
  /\ instArg = kIdVfpclasspd
  /\ optArg = {"K", "KZ"}
  /\ extraArg = Reg(kRegK, 1)
  /\ valRet.err = "kErrorInvalidKZeroUse"

\* The call gets past the signature scan: some row of a non-empty group
\* matched the operands.
OperandsMatched == ReachesMatch /\ GroupRows > 0 /\ ~NoRowMatches

\* The {k} and {z} checks find nothing wrong with the call.
MaskChecksPass ==
  LET cd == getCommonData(instArg)
  IN  \/ (optArg \cap {"K", "KZ"}) = {}
      \/ /\ "K" \in optArg
         /\ extraArg.op = "Reg" /\ extraArg.regType = kRegK
         /\ "EvexK_" \in cd[1]
         /\ "KZ" \in optArg => "EvexKZ" \in cd[1]

\* The leading operands that are memory operands.
MemOperands == { k \in 1..Leading : opsArg[k].op = "Mem" }

\* The size of the call's memory operand does not fit the broadcast
\* element the instruction declares.
BroadcastSizeMismatch ==
  LET cd == getCommonData(instArg)
  IN  \E k \in MemOperands :
        /\ opsArg[k].size # 0
        /\ \/ "EvexB4" \in cd[1] /\ opsArg[k].size # 4
           \/ "EvexB8" \in cd[1] /\ opsArg[k].size # 8

(***************************************************************************)
(* C11.  For a call with the 1ToX (broadcast) option whose operands        *)
(* matched a signature row and whose {k} and {z} checks passed: validate   *)
(* returns kErrorInvalidBroadcast exactly when no operand is a memory      *)
(* operand, or the memory operand has a non-zero size other than 4 on an   *)
(* EvexB4 instruction or other than 8 on an EvexB8 instruction.            *)
(***************************************************************************)
C11_Broadcast ==
  (OperandsMatched /\ MaskChecksPass /\ "1ToX" \in optArg) =>
    (valRet.err = "kErrorInvalidBroadcast"  <=>  (MemOperands = {} \/ BroadcastSizeMismatch))

\* VADDPD xmm0, xmm1, dword [ebx] {1tox}: VADDPD declares an 8-byte element.
C11_Witness ==
  /\ OperandsMatched
  /\ instArg = kIdVaddpd
  /\ optArg = {"1ToX"}
  /\ OperandsAre(<< Reg(kRegXmm, 0), Reg(kRegXmm, 1), Mem(4, kRegGpd, 0) >>)
  /\ valRet.err = "kErrorInvalidBroadcast"

\* The broadcast check finds nothing wrong with the call.
BroadcastPasses == "1ToX" \in optArg => (MemOperands # {} /\ ~BroadcastSizeMismatch)

\* The call gets to the {sae} / {er} checks with one of the two options set.
ReachesSaeEr ==
  /\ OperandsMatched
  /\ MaskChecksPass
  /\ BroadcastPasses
  /\ (optArg \cap {"SAE", "ER"}) # {}

\* The instruction declares a broadcast element: it is a vector instruction.
DeclaresBroadcast == (getCommonData(instArg)[1] \cap {"EvexB4", "EvexB8"}) # {}

\* One of the first two operands is a ZMM register.
ZmmInFirstTwo ==
  \E k \in 1..2 : opsArg[k].op = "Reg" /\ opsArg[k].regType = kRegZmm

(***************************************************************************)
(* C12.  For a call with SAE or ER set that gets to the {sae} / {er}       *)
(* checks: a memory operand gives kErrorInvalidSAEOrER; with ER set the    *)
(* instruction must carry EvexER, else kErrorInvalidSAEOrER, and EvexSAE   *)
(* is not looked at even when SAE is set as well (a register-only call of  *)
(* an EvexER instruction that meets the ZMM requirement returns kErrorOk); *)
(* with SAE set and ER not, the instruction must carry EvexSAE, else       *)
(* kErrorInvalidSAEOrER, and with EvexSAE the call returns kErrorOk.       *)
(***************************************************************************)
C12_SaeEr ==
  ReachesSaeEr =>
    LET flags == getCommonData(instArg)[1]
        er    == "ER" \in optArg
    IN  /\ MemOperands # {} => valRet.err = "kErrorInvalidSAEOrER"
        /\ (er /\ "EvexER" \notin flags) => valRet.err = "kErrorInvalidSAEOrER"
        /\ (er /\ "EvexER" \in flags /\ MemOperands = {}
               /\ (DeclaresBroadcast => ZmmInFirstTwo)) => valRet.err = "kErrorOk"
        /\ (~er /\ "EvexSAE" \notin flags) => valRet.err = "kErrorInvalidSAEOrER"
        /\ (~er /\ "EvexSAE" \in flags /\ MemOperands = {}) => valRet.err = "kErrorOk"

\* VADDPD zmm0, zmm1, zmm2 {sae}{er}: VADDPD carries EvexER and not EvexSAE.
C12_Witness ==
  /\ ReachesSaeEr
  /\ instArg = kIdVaddpd
  /\ optArg = {"SAE", "ER"}
  /\ "EvexSAE" \notin getCommonData(instArg)[1]
  /\ OperandsAre(<< Reg(kRegZmm, 0), Reg(kRegZmm, 1), Reg(kRegZmm, 2) >>)
  /\ valRet.err = "kErrorOk"

(***************************************************************************)
(* C13.  For a register-only call with ER set on an EvexER instruction     *)
(* that gets to the {sae} / {er} checks: if the instruction declares a     *)
(* broadcast element, validate returns kErrorInvalidSAEOrER unless operand *)
(* 0 or operand 1 is a ZMM register, and kErrorOk if one is; if it         *)
(* declares none (a scalar instruction) the call returns kErrorOk without  *)
(* any ZMM operand.                                                        *)
(***************************************************************************)
C13_ErNeedsZmm ==
  (ReachesSaeEr /\ "ER" \in optArg /\ MemOperands = {}
     /\ "EvexER" \in getCommonData(instArg)[1]) =>
    /\ DeclaresBroadcast =>
         (valRet.err = "kErrorInvalidSAEOrER"  <=>  ~ZmmInFirstTwo)
    /\ DeclaresBroadcast => valRet.err \in {"kErrorInvalidSAEOrER", "kErrorOk"}
    /\ ~DeclaresBroadcast => valRet.err = "kErrorOk"

\* VADDPD xmm0, xmm1, xmm2 {er}.
C13_Witness ==
  /\ ReachesSaeEr
  /\ instArg = kIdVaddpd
  /\ optArg = {"ER"}
  /\ OperandsAre(<< Reg(kRegXmm, 0), Reg(kRegXmm, 1), Reg(kRegXmm, 2) >>)
  /\ valRet.err = "kErrorInvalidSAEOrER"

Looked == pc = "done" /\ fn = "getIdByName"

\* The input's length: the explicit length, or the length of the C string.
InputLen == IF lenArg = kInvalidIndex THEN Len(nameArg.bytes) ELSE lenArg

\* The input is the empty string, by length 0 or by its NUL.
EmptyInput == ~nameArg.null /\ InputLen = 0

\* The input's first byte, folded as the claims say: 'A'..'Z' to 'a'..'z'.
FirstFolded ==
  LET c == nameArg.bytes[1]
  IN  IF c \in 65..90 THEN c + 32 ELSE c

C15_CapAndBuffer ==
  Looked =>
    /\ (~nameArg.null /\ InputLen > kX86InstMaxLength) => idRet = kInvalidInst
    /\ stored <= kX86InstMaxLength

(***************************************************************************)
(* C16.  For every input of at most 16 bytes, given with its length or     *)
(* NUL-terminated, getIdByName returns what it returns for the same input  *)
(* in lower case; an id it returns is the id of the mnemonic that the      *)
(* input spells in lower case.                                             *)
(***************************************************************************)
C16_CaseInsensitive ==
  (Looked /\ ~nameArg.null /\ Len(nameArg.bytes) <= kX86InstMaxLength
     /\ lenArg \in {Len(nameArg.bytes), kInvalidIndex}) =>
    LET lower == [i \in 1..Len(nameArg.bytes) |->
                    IF nameArg.bytes[i] \in 65..90 THEN nameArg.bytes[i] + 32
                                                   ELSE nameArg.bytes[i]]
    IN  /\ idRet = getIdByName(CStrArg(lower), lenArg, uninit).id
        /\ idRet \in 1..(kIdCount - 1) => getName(idRet) = lower

\* getIdByName("JMP", 3) returns the id of jmp.
C16_Witness ==
  /\ Looked
  /\ nameArg = CStrArg(<<74, 77, 80>>)
  /\ lenArg = 3
  /\ idRet > 0
  /\ getName(idRet) = <<106, 109, 112>>

\* The 16 concrete condition codes, O .. G.
ConcreteConds == kCondO..kCondG

\* The complement of a concrete condition, as C18 lists them.
Complement ==
  [c \in ConcreteConds |->
     CASE c = kCondO  -> kCondNO [] c = kCondNO -> kCondO
       [] c = kCondB  -> kCondAE [] c = kCondAE -> kCondB
       [] c = kCondE  -> kCondNE [] c = kCondNE -> kCondE
       [] c = kCondBE -> kCondA  [] c = kCondA  -> kCondBE
       [] c = kCondS  -> kCondNS [] c = kCondNS -> kCondS
       [] c = kCondPE -> kCondPO [] c = kCondPO -> kCondPE
       [] c = kCondL  -> kCondGE [] c = kCondGE -> kCondL
       [] c = kCondLE -> kCondG  [] c = kCondG  -> kCondLE]

\* The condition that holds of (b, a) when c holds of (a, b).
Exchanged ==
  [c \in ConcreteConds |->
     CASE c = kCondB  -> kCondA  [] c = kCondA  -> kCondB
       [] c = kCondAE -> kCondBE [] c = kCondBE -> kCondAE
       [] c = kCondL  -> kCondG  [] c = kCondG  -> kCondL
       [] c = kCondGE -> kCondLE [] c = kCondLE -> kCondGE
       [] OTHER -> c]

(***************************************************************************)
(* C17.  On the 16 concrete condition codes reverseCond is an involution:  *)
(* it sends a concrete code to a concrete code, and reversing the result   *)
(* gives the code back.                                                    *)
(***************************************************************************)
C17_ReverseIsInvolution ==
  /\ (pc = "done" /\ fn = "reverseCond" /\ condArg \in ConcreteConds)
       => condRet \in ConcreteConds
  /\ (pc = "done" /\ fn = "reverseCondTwice" /\ condArg \in ConcreteConds)
       => condRet = condArg

\* reverseCond(reverseCond(B)) = B, by way of A.
C17_Witness ==
  /\ pc = "done"
  /\ fn = "reverseCondTwice"
  /\ condArg = kCondB
  /\ condRet = kCondB
  /\ reverseCond(kCondB) = kCondA

(***************************************************************************)
(* C18, as stated.  reverseCond sends every concrete condition to its      *)
(* logical complement: O to NO and NO to O, B to AE and AE to B, E<->NE,   *)
(* BE<->A, S<->NS, PE<->PO, L<->GE, LE<->G.                                *)
(***************************************************************************)
C18_ReverseNegates ==
  (pc = "done" /\ fn = "reverseCond" /\ condArg \in ConcreteConds)
    => condRet = Complement[condArg]

(***************************************************************************)
(* C18, amended.  reverseCond sends a concrete condition to the condition  *)
(* that holds when the two compared operands are exchanged: B<->A,         *)
(* AE<->BE, L<->G, GE<->LE, and O, NO, E, NE, S, NS, PE, PO to themselves. *)
(* It sends no concrete condition to its complement.                       *)
(***************************************************************************)
C18_ReverseExchangesOperands ==
  (pc = "done" /\ fn = "reverseCond" /\ condArg \in ConcreteConds)
    => (condRet = Exchanged[condArg] /\ condRet # Complement[condArg])

\* reverseCond(B) = A.
C18_Witness ==
  /\ pc = "done"
  /\ fn = "reverseCond"
  /\ condArg = kCondB
  /\ condRet = kCondA

\* The mnemonic suffixes of the concrete conditions, in the order of the
\* codes: o, no, b, ae, e, ne, be, a, s, ns, pe, po, l, ge, le, g.
CondSuffix ==
  << <<111>>, <<110, 111>>, <<98>>, <<97, 101>>, <<101>>, <<110, 101>>,
     <<98, 101>>, <<97>>, <<115>>, <<110, 115>>, <<112, 101>>, <<112, 111>>,
     <<108>>, <<103, 101>>, <<108, 101>>, <<103>> >>

\* "j", "set", "cmov".
FamilyPrefix ==
  [condToJcc |-> <<106>>, condToSetcc |-> <<115, 101, 116>>,
   condToCmovcc |-> <<99, 109, 111, 118>>]

CondToInstCalled == pc = "done" /\ fn \in DOMAIN FamilyPrefix

\* The table entry is the instruction named by the family's prefix and the
\* condition's suffix; the entries after the concrete conditions are 0.
CondEntryNamed ==
  IF condArg \in ConcreteConds
    THEN /\ condRet \in 1..(kIdCount - 1)
         /\ getName(condRet) = FamilyPrefix[fn] \o CondSuffix[condArg + 1]
    ELSE condRet = 0

\* The encoding kind enc is the family's own: the names of the
\* instructions that carry it all begin with the family's prefix.
OwnEncoding(enc, prefix) ==
  \A id \in 0..(kIdCount - 1) :
    getEncodingType(id) = enc =>
      LET n == getName(id)
      IN  Len(n) > Len(prefix) /\ SubSeq(n, 1, Len(prefix)) = prefix

(***************************************************************************)
(* C19, as stated.  For each concrete condition the three tables hold the  *)
(* id of the instruction named "j", "set" or "cmov" plus the condition's   *)
(* suffix, whose record has the encoding kind of its family (Jcc, SETcc,   *)
(* CMOVcc); entries 16..19 hold 0 in all three tables.                     *)
(***************************************************************************)
C19_CondToInst ==
  CondToInstCalled =>
    /\ CondEntryNamed
    /\ condArg \in ConcreteConds =>
         OwnEncoding(getEncodingType(condRet), FamilyPrefix[fn])

(***************************************************************************)
(* C19, amended.  The names and the entries 16..19 are as stated; the      *)
(* records of the Jcc and SETcc instructions have the encoding kinds       *)
(* X86Jcc and X86Set, which only their families carry, and the records of  *)
(* the CMOVcc instructions have the encoding kind X86Rm, which other       *)
(* instructions carry as well.                                             *)
(***************************************************************************)
C19_CondToInstEncodings ==
  CondToInstCalled =>
    /\ CondEntryNamed
    /\ condArg \in ConcreteConds =>
         LET enc == getEncodingType(condRet)
         IN  CASE fn = "condToJcc"    -> enc = "X86Jcc" /\ OwnEncoding(enc, FamilyPrefix[fn])
               [] fn = "condToSetcc"  -> enc = "X86Set" /\ OwnEncoding(enc, FamilyPrefix[fn])
               [] fn = "condToCmovcc" -> enc = "X86Rm" /\ ~OwnEncoding(enc, FamilyPrefix[fn])

\* condToCmovcc(AE) is cmovae, whose encoding kind is X86Rm.
C19_Witness ==
  /\ CondToInstCalled
  /\ fn = "condToCmovcc"
  /\ condArg = kCondAE
  /\ condRet = kIdCmovae
  /\ getEncodingType(condRet) = "X86Rm"

\* The five AVX-512 option bits: MaskReg, MaskZeroing, Broadcast, SAE and
\* StaticRounding.
Avx512Bits == {"K", "KZ", "1ToX", "SAE", "ER"}

(***************************************************************************)
(* C20.  The result of validate does not depend on the option bits other   *)
(* than the five AVX-512 bits: the call returns what the same call without *)
(* those bits returns (REX with ah among the operands included); and with  *)
(* none of the five bits set it returns what the same call without extra   *)
(* operand returns.                                                        *)
(***************************************************************************)
C20_OtherOptionsIgnored ==
  (Validated /\ (optArg \ Avx512Bits # {} \/ extraArg # NoOperand)) =>
    /\ valRet = validate(archArg, instArg, optArg \cap Avx512Bits, extraArg, opsArg, cntArg)
    /\ (optArg \cap Avx512Bits) = {} =>
         valRet = validate(archArg, instArg, optArg, NoOperand, opsArg, cntArg)

\* x64 MOV ah, cl with REX forced is accepted.
C20_Witness ==
  /\ Validated
  /\ archArg = kTypeX64
  /\ instArg = kIdMov
  /\ optArg = {"Rex"}
  /\ OperandsAre(<< Reg(kRegGpbHi, 0), Reg(kRegGpbLo, 1) >>)
  /\ valRet.err = "kErrorOk"

\* The flags that name a register class.
RegClassFlags ==
  {"GpbLo", "GpbHi", "Gpw", "Gpd", "Gpq", "Seg", "Fp", "Mm", "K", "Xmm", "Ymm",
   "Zmm", "Bnd", "Cr", "Dr"}

\* The rows of the operand-signature table with a fixed register id.
FixedIdRows ==
  { k \in 0..(Len(_x86InstOSignatureData) - 1) : OSignature(k).regId # kInvalidReg }

RegClassesOf(k) == OSignature(k).flags \cap RegClassFlags

\* The rows with a fixed register id that select two register classes.
TwoClassRows == { k \in FixedIdRows : Cardinality(RegClassesOf(k)) = 2 }

\* The signature rows of JECXZ.
JecxzRows ==
  getCommonData(kIdJecxz)[2]..(getCommonData(kIdJecxz)[2] + getCommonData(kIdJecxz)[3] - 1)

AllFixedIdRowsOneClass ==
  \A k \in FixedIdRows : Cardinality(RegClassesOf(k)) = 1

FixedIdRowsOneOrTwoClasses ==
  /\ \A k \in FixedIdRows :
       \/ Cardinality(RegClassesOf(k)) = 1
       \/ /\ RegClassesOf(k) \in { {"Gpw", "Gpd"}, {"Gpd", "Gpq"} }
          /\ OSignature(k).regId = 1
  /\ Cardinality(TwoClassRows) = 2
  /\ \A k \in TwoClassRows : \E j \in JecxzRows : ISignature(j).operands[1] = k

(***************************************************************************)
(* C21, as stated.  Every row of the operand-signature table whose         *)
(* register id is not 0xFF has flags that select exactly one register      *)
(* class; read off the table validate() has just scanned.                  *)
(***************************************************************************)
C21_FixedIdOneClass == Validated => AllFixedIdRowsOneClass

(***************************************************************************)
(* C21, amended.  Every row with a register id other than 0xFF selects at  *)
(* least one register class, and exactly one except for two rows, the      *)
(* first operand of JECXZ in x86 (cx or ecx) and in x64 (ecx or rcx),      *)
(* which select two general-purpose classes with the register id 1.        *)
(***************************************************************************)
C21_FixedIdOneOrTwoClasses == Validated => FixedIdRowsOneOrTwoClasses

\* x86 JECXZ ecx, label matches the row whose first operand is cx or ecx.
C21_Witness ==
  /\ OperandsMatched
  /\ archArg = kTypeX86
  /\ instArg = kIdJecxz
  /\ OperandsAre(<< Reg(kRegGpd, 1), LabelOp(0) >>)
  /\ valRet.err = "kErrorOk"
  /\ RegClassesOf(ISignature(valRet.row).operands[1]) = {"Gpw", "Gpd"}

(***************************************************************************)
(* C22.  getIdByName is a pure function of its arguments and the constant  *)
(* tables: a call returns what any other call with the same name and the   *)
(* same length returns, alone or beside other calls, whatever the bytes    *)
(* its own stack buffer held when it was entered.  (validate reads its     *)
(* arguments and the tables only, and writes its locals only.)             *)
(***************************************************************************)
C22_PureFunctions ==
  Looked =>
    \A g \in UninitBytes : getIdByName(nameArg, lenArg, g).id = idRet

(***************************************************************************)
(* C23.  From a fresh FuncSignatureX (no argument, return type void), any  *)
(* sequence of n <= 32 addArg calls completes without violating an         *)
(* assertion and without storing outside the builder's array; afterwards   *)
(* getArgCount() is n and getArg(i) is the i-th type added, 0 <= i < n.    *)
(***************************************************************************)
C23_AddArgUpTo32 ==
  Len(added) <= kFuncArgCountLoHi =>
    /\ ~assertFailed
    /\ Len(_builderArgList) <= kFuncArgCount
    /\ getArgCount = Len(added)
    /\ \A i \in 0..(Len(added) - 1) : getArg(i) = added[i + 1]

\* The translated operands of the call.
ArgTranslated == TranslateOperands(ArgVd, opsArg, cntArg)

\* The rows of the instruction's signature group.
ArgGroup ==
  getCommonData(instArg)[2]..(getCommonData(instArg)[2] + getCommonData(instArg)[3] - 1)

\* The three conditions of the operand predicate, as the specification
\* words them.
SatisfiesRef(oChk, oRef) ==
  /\ \E f \in oRef.flags : f \in oChk.flags
  /\ oChk.memFlags = {} \/ (\E f \in oRef.memFlags : f \in oChk.memFlags)
  /\ oRef.regId = kInvalidReg \/ oChk.regId = kInvalidReg \/ oRef.regId = oChk.regId

\* The first row of the group, compatible with the architecture and of the
\* call's operand count, whose references the operands satisfy position by
\* position; -1 when there is none.
FirstExactRow ==
  LET t    == ArgTranslated
      hits == { k \in ArgGroup :
                  /\ ArgArchMask \in ISignature(k).archMask
                  /\ ISignature(k).opCount = t.i
                  /\ \A j \in 1..t.i :
                       SatisfiesRef(t.oSigTranslated[j], OSignature(ISignature(k).operands[j])) }
  IN  IF hits = {} THEN 0 - 1 ELSE CHOOSE k \in hits : \A h \in hits : k <= h

\* No row of the group takes the call's operands with implicit ones added.
NoImplicitRow ==
  \A k \in ArgGroup :
    ISignature(k).implicit = 0 \/ ISignature(k).opCount - ISignature(k).implicit # Leading

(***************************************************************************)
(* C24.  For a call that gets to the signature scan, a row with the call's *)
(* operand count matches exactly when every operand (a) shares a flag with *)
(* the row's reference, (b) has no memory flags or shares one with the     *)
(* reference, and (c) meets a reference whose register id is 'any', or     *)
(* carries no register id, or carries the reference's id: with no          *)
(* implicit-operand row in play the call matches the first such row and    *)
(* fails with InvalidInstruction when there is none.  So FADD st(i), st(j) *)
(* is Ok exactly when i = 0 or j = 0, FADD fp0, eax is rejected, and on    *)
(* x64 CMP rax, al is InvalidInstruction.                                  *)
(***************************************************************************)
C24_ExactMatch ==
  /\ (ReachesMatch /\ GroupRows > 0 /\ NoImplicitRow) =>
       /\ valRet.row = FirstExactRow
       /\ FirstExactRow = 0 - 1 <=> valRet.err = "kErrorInvalidInstruction"
  /\ (Validated /\ instArg = kIdFadd /\ optArg = {}) =>
       /\ \A i \in 0..7, j \in 0..7 :
            OperandsAre(<< Reg(kRegFp, i), Reg(kRegFp, j) >>) =>
              (valRet.err = "kErrorOk" <=> (i = 0 \/ j = 0))
       /\ OperandsAre(<< Reg(kRegFp, 0), Reg(kRegGpd, 0) >>) => valRet.err # "kErrorOk"
  /\ (Validated /\ instArg = kIdCmp /\ archArg = kTypeX64
        /\ OperandsAre(<< Reg(kRegGpq, 0), Reg(kRegGpbLo, 0) >>)) =>
       valRet.err = "kErrorInvalidInstruction"

\* x86 FADD fp7, fp0 is Ok.
C24_Witness ==
  /\ OperandsMatched
  /\ archArg = kTypeX86
  /\ instArg = kIdFadd
  /\ OperandsAre(<< Reg(kRegFp, 7), Reg(kRegFp, 0) >>)
  /\ valRet.err = "kErrorOk"
  /\ valRet.row = FirstExactRow

\* The call is MOV dst, src in the architecture archType.
MovOf(archType, dst, src) ==
  Validated /\ instArg = kIdMov /\ archArg = archType /\ optArg = {}
    /\ OperandsAre(<< dst, src >>)

(***************************************************************************)
(* C25.  The scan never stops at a row whose architecture mask excludes    *)
(* the active architecture.  So MOV eax, cr0 and MOV eax, dr0 are Ok in    *)
(* x86; in x64 MOV eax, cr0 and MOV eax, dr7 are not Ok while MOV rax, cr8 *)
(* and MOV rax, dr7 are Ok.                                                *)
(***************************************************************************)
C25_ArchMask ==
  /\ (Validated /\ valRet.row >= 0) => ArgArchMask \in ISignature(valRet.row).archMask
  /\ MovOf(kTypeX86, Reg(kRegGpd, 0), Reg(kRegCr, 0)) => valRet.err = "kErrorOk"
  /\ MovOf(kTypeX86, Reg(kRegGpd, 0), Reg(kRegDr, 0)) => valRet.err = "kErrorOk"
  /\ MovOf(kTypeX64, Reg(kRegGpd, 0), Reg(kRegCr, 0)) => valRet.err # "kErrorOk"
  /\ MovOf(kTypeX64, Reg(kRegGpd, 0), Reg(kRegDr, 7)) => valRet.err # "kErrorOk"
  /\ MovOf(kTypeX64, Reg(kRegGpq, 0), Reg(kRegCr, 8)) => valRet.err = "kErrorOk"
  /\ MovOf(kTypeX64, Reg(kRegGpq, 0), Reg(kRegDr, 7)) => valRet.err = "kErrorOk"

\* x64 MOV eax, dr7 finds no row: the row r32, creg|dreg is for x86 only.
C25_Witness ==
  /\ MovOf(kTypeX64, Reg(kRegGpd, 0), Reg(kRegDr, 7))
  /\ ReachesMatch
  /\ valRet.err = "kErrorInvalidInstruction"
  /\ \E k \in ArgGroup :
       /\ ArgArchMask \notin ISignature(k).archMask
       /\ ExactMatch(ISignature(k), ArgTranslated.oSigTranslated, ArgTranslated.i)

\* The references of row k that are not flagged Implicit, in order.
ExplicitRefs(k) ==
  SelectSeq(SubSeq(ISignature(k).operands, 1, ISignature(k).opCount),
            LAMBDA o : "Implicit" \notin OSignature(o).flags)

\* The call's operands satisfy, in order, the references refs.
SatisfyInOrder(refs) ==
  /\ Len(refs) = ArgTranslated.i
  /\ \A j \in 1..ArgTranslated.i :
       SatisfiesRef(ArgTranslated.oSigTranslated[j], OSignature(refs[j]))

\* Row k takes the call: with as many operands as the row has, position by
\* position, the implicit references included; with the row's operands less
\* its implicit ones, against the references that are not implicit.
RowTakesCall(k) ==
  /\ ArgArchMask \in ISignature(k).archMask
  /\ IF ISignature(k).opCount = ArgTranslated.i
       THEN SatisfyInOrder(SubSeq(ISignature(k).operands, 1, ISignature(k).opCount))
       ELSE /\ ISignature(k).implicit > 0
            /\ ISignature(k).opCount - ISignature(k).implicit = ArgTranslated.i
            /\ SatisfyInOrder(ExplicitRefs(k))

(***************************************************************************)
(* C26.  For a call that gets to the signature scan: a row of n operands   *)
(* of which k > 0 are implicit takes a call with n - k operands exactly    *)
(* when the operands satisfy, in order, the references that are not        *)
(* flagged Implicit, wherever the implicit ones stand; a call with n       *)
(* operands is compared position by position, the implicit references      *)
(* included, and the implicit path is not tried.  The scan stops at the    *)
(* first row that takes the call.                                          *)
(***************************************************************************)
C26_ImplicitMatch ==
  (ReachesMatch /\ GroupRows > 0) =>
    /\ \A k \in ArgGroup : valRet.row = k =>
         (RowTakesCall(k) /\ \A h \in ArgGroup : h < k => ~RowTakesCall(h))
    /\ valRet.row = 0 - 1 => \A k \in ArgGroup : ~RowTakesCall(k)

\* x86 MUL edx: one operand, taken by the row <edx>, <eax>, r32|m32.
C26_Witness ==
  /\ OperandsMatched
  /\ archArg = kTypeX86
  /\ instArg = kIdMul
  /\ OperandsAre(<< Reg(kRegGpd, 2) >>)
  /\ valRet.err = "kErrorOk"
  /\ ISignature(valRet.row).implicit = 2
  /\ "Implicit" \in OSignature(ISignature(valRet.row).operands[1]).flags

\* The first leading operand that does not translate.
FirstBadOperand ==
  CHOOSE j \in 1..Leading :
    /\ TranslateOperand(ArgVd, opsArg[j]).err # "kErrorOk"
    /\ \A h \in 1..(j - 1) : TranslateOperand(ArgVd, opsArg[h]).err = "kErrorOk"

KMaskErrors == {"kErrorInvalidKZeroUse", "kErrorInvalidKMaskReg", "kErrorInvalidKMaskUse"}

\* The error returned is the one of the first phase that finds one; the
\* scan is taken to find one when scanFails holds.
PhaseOrder(scanFails) ==
  /\ ~isX86Family(archArg) => valRet.err = "kErrorInvalidArch"
  /\ (isX86Family(archArg) /\ instArg >= kIdCount) => valRet.err = "kErrorInvalidArgument"
  /\ PreconditionsHold =>
       /\ ~OperandsTranslate =>
            /\ valRet.err = TranslateOperand(ArgVd, opsArg[FirstBadOperand]).err
            /\ valRet.err \in {"kErrorInvalidRegType", "kErrorInvalidPhysId",
                                "kErrorInvalidAddress", "kErrorInvalidState"}
       /\ (OperandsTranslate /\ GapInOperands) => valRet.err = "kErrorInvalidState"
       /\ (TranslationPasses /\ ~ReachesMatch) =>
            /\ valRet.err = ArchChecks(ArgArchMask, ArgTranslated)
            /\ valRet.err \in {"kErrorInvalidUseOfGpq", "kErrorInvalidUseOfGpbHi"}
       /\ ReachesMatch =>
            IF scanFails THEN valRet.err = "kErrorInvalidInstruction"
            ELSE /\ ~MaskChecksPass => valRet.err \in KMaskErrors
                 /\ (MaskChecksPass /\ ~BroadcastPasses) => valRet.err = "kErrorInvalidBroadcast"
                 /\ (MaskChecksPass /\ BroadcastPasses) =>
                      valRet.err \in {"kErrorOk", "kErrorInvalidSAEOrER"}

(***************************************************************************)
(* C27, as stated.  The error returned is the first one found, in phase    *)
(* order: the preconditions (InvalidArch, then InvalidArgument), operand   *)
(* translation in operand order (InvalidRegType, InvalidPhysId,            *)
(* InvalidAddress, InvalidState), InvalidUseOfGpq / InvalidUseOfGpbHi,     *)
(* InvalidInstruction, then the AVX-512 option errors, mask before         *)
(* broadcast before SAE/ER.  A call whose operands match no signature row  *)
(* returns InvalidInstruction whatever AVX-512 option bits are set.        *)
(***************************************************************************)
C27_PhaseOrder == Validated => PhaseOrder(NoRowMatches)

(***************************************************************************)
(* C27, amended.  The same, with InvalidInstruction returned when the      *)
(* instruction has at least one signature row and none matches: for an     *)
(* instruction without signature rows the scan is not made and the call    *)
(* goes on to the option checks.                                           *)
(***************************************************************************)
C27_PhaseOrderNonEmptyGroup == Validated => PhaseOrder(GroupRows > 0 /\ NoRowMatches)

\* No row matches, the options are wrong as well: InvalidInstruction.
C27_Witness ==
  /\ ReachesMatch
  /\ GroupRows > 0
  /\ NoRowMatches
  /\ ~MaskChecksPass
  /\ "1ToX" \in optArg
  /\ valRet.err = "kErrorInvalidInstruction"

\* The operand with the value of an immediate set to 0.
WithoutValue(op) == IF op.op = "Imm" THEN Imm(0) ELSE op

\* Some operand of the call is an immediate.
HasImmediate == \E k \in 1..cntArg : opsArg[k].op = "Imm"

(***************************************************************************)
(* C28.  The result of validate never depends on the value of an           *)
(* immediate operand: a call with immediates returns what the same call    *)
(* returns with every immediate's value replaced by 0.  Every immediate    *)
(* the translation gets to is translated to I4|I8|I16|I32|I64, and         *)
(* MOV eax, imm is Ok for every value.                                     *)
(***************************************************************************)
C28_ImmediateValue ==
  (Validated /\ HasImmediate) =>
    /\ valRet = validate(archArg, instArg, optArg, WithoutValue(extraArg),
                         [k \in 1..Len(opsArg) |-> WithoutValue(opsArg[k])], cntArg)
    /\ PreconditionsHold =>
         \A k \in 1..Leading :
           (Reached(k) /\ opsArg[k].op = "Imm") =>
             /\ TranslateOperand(ArgVd, opsArg[k]).err = "kErrorOk"
             /\ TranslateOperand(ArgVd, opsArg[k]).flags = {"I4", "I8", "I16", "I32", "I64"}
    /\ (instArg = kIdMov /\ archArg = kTypeX86 /\ optArg = {}
          /\ \E val \in ImmValues : OperandsAre(<< Reg(kRegGpd, 0), Imm(val) >>)) =>
         valRet.err = "kErrorOk"

\* x86 MOV eax, 65536 is Ok.
C28_Witness ==
  /\ OperandsMatched
  /\ archArg = kTypeX86
  /\ instArg = kIdMov
  /\ OperandsAre(<< Reg(kRegGpd, 0), Imm(65536) >>)
  /\ valRet.err = "kErrorOk"

\* The mem-kind bit of a size in bytes.
MemSizeBit(size) ==
  CASE size = 1 -> "M8" [] size = 2 -> "M16" [] size = 4 -> "M32" [] size = 8 -> "M64"
    [] size = 10 -> "M80" [] size = 16 -> "M128" [] size = 32 -> "M256"
    [] size = 64 -> "M512" [] size = 128 -> "M1024"

IsVectorIndex(op) == op.indexType \in {kRegXmm, kRegYmm, kRegZmm}

(***************************************************************************)
(* C29.  In the translation of a memory operand the all-sizes mask is      *)
(* recorded only when the operand has neither an explicit size nor a       *)
(* vector index; an operand with an explicit size and no vector index is   *)
(* translated to the mem-kind bit of that size.  So MOV eax, byte ptr      *)
(* [ebx] is not Ok: no row of mov takes r32, m8.                           *)
(***************************************************************************)
C29_SizedMem ==
  /\ (Validated /\ PreconditionsHold) =>
       \A k \in 1..Leading :
         (Reached(k) /\ opsArg[k].op = "Mem"
            /\ TranslateOperand(ArgVd, opsArg[k]).err = "kErrorOk") =>
           /\ TranslateOperand(ArgVd, opsArg[k]).memFlags = AllMemSizes =>
                (opsArg[k].size = 0 /\ ~IsVectorIndex(opsArg[k]))
           /\ (opsArg[k].size # 0 /\ ~IsVectorIndex(opsArg[k])) =>
                TranslateOperand(ArgVd, opsArg[k]).memFlags = {MemSizeBit(opsArg[k].size)}
  /\ MovOf(kTypeX86, Reg(kRegGpd, 0), Mem(1, kRegGpd, 0)) => valRet.err # "kErrorOk"

\* The base types and the index types the specification permits.
PermittedBase ==
  IF archArg = kTypeX86 THEN {kRegGpw, kRegGpd, kRegRip, kLabelTag}
                        ELSE {kRegGpd, kRegGpq, kRegRip, kLabelTag}

PermittedIndex ==
  (IF archArg = kTypeX86 THEN {kRegGpw, kRegGpd} ELSE {kRegGpd, kRegGpq})
    \cup {kRegXmm, kRegYmm, kRegZmm}

\* The operand with the ids of a memory operand's base and index set to 0.
WithoutMemIds(op) ==
  IF op.op = "Mem" THEN [op EXCEPT !.baseId = 0, !.indexId = 0] ELSE op

\* The ids of the physical registers among the operands translated.
RegOperandIds ==
  { opsArg[k].id : k \in { j \in 1..valRet.i : IsPhysReg(opsArg[j]) } }

HasMemOperand == \E k \in 1..cntArg : opsArg[k].op = "Mem"

(***************************************************************************)
(* C30.  The base and the index of a memory operand are validated by type  *)
(* only.  A memory operand the translation gets to fails, with             *)
(* InvalidAddress, exactly when its base type is set and not permitted     *)
(* (x86: Gpw, Gpd, Rip, label; x64: Gpd, Gpq, Rip, label) or its index     *)
(* type is set and not permitted (the GP registers of the two address      *)
(* widths, Xmm, Ymm, Zmm).  The ids of base and index are neither          *)
(* range-checked nor merged into the combined register mask: the call      *)
(* returns what it returns with these ids set to 0, the mask holds the ids *)
(* of the register operands only, and x64 MOV ah, [r8] passes the GpbHi    *)
(* check.                                                                  *)
(***************************************************************************)
C30_MemAddress ==
  (Validated /\ PreconditionsHold /\ HasMemOperand) =>
    /\ \A k \in 1..Leading :
         (Reached(k) /\ opsArg[k].op = "Mem") =>
           /\ TranslateOperand(ArgVd, opsArg[k]).err \in {"kErrorOk", "kErrorInvalidAddress"}
           /\ TranslateOperand(ArgVd, opsArg[k]).err = "kErrorInvalidAddress" <=>
                \/ opsArg[k].baseType # 0 /\ opsArg[k].baseType \notin PermittedBase
                \/ opsArg[k].indexType # 0 /\ opsArg[k].indexType \notin PermittedIndex
    /\ valRet = validate(archArg, instArg, optArg, extraArg,
                         [k \in 1..Len(opsArg) |-> WithoutMemIds(opsArg[k])], cntArg)
    /\ valRet.phase # "translate" => valRet.combinedRegMask = RegOperandIds
    /\ (archArg = kTypeX64 /\ instArg = kIdMov /\ optArg = {}
          /\ OperandsAre(<< Reg(kRegGpbHi, 0), MemIds(0, kRegGpq, 8, 0, 0) >>)) =>
         valRet.err = "kErrorOk"

\* x64 MOV ah, [r8] is Ok.
C30_Witness ==
  /\ OperandsMatched
  /\ archArg = kTypeX64
  /\ instArg = kIdMov
  /\ OperandsAre(<< Reg(kRegGpbHi, 0), MemIds(0, kRegGpq, 8, 0, 0) >>)
  /\ valRet.err = "kErrorOk"

=============================================================================
